---- MODULE Spec2Model ----
(***************************************************************************)
(* Download orchestration pipeline of Rust_Downloader.                     *)
(*                                                                         *)
(* AsyncDownloadManager::download_tracks (downloader/async_manager.rs)     *)
(* spawns one unit per track; a unit sends Queued, acquires a permit of    *)
(* the semaphore, sends SearchingSource, spawns a forwarder that relays    *)
(* the track's own progress channel to the aggregation channel, and runs   *)
(* AudioDownloader::download_track (downloader/audio.rs).                  *)
(*                                                                         *)
(* One action is one stretch of a task between two suspension points       *)
(* (.await): the synchronous code that follows the awaited call is part    *)
(* of the action that resolves the call.                                   *)
(***************************************************************************)
EXTENDS Integers, Sequences, FiniteSets, TLC

\* Largest batch handed to download_tracks.
NumTracks == 2
\* max_concurrent given to AsyncDownloadManager::new.
Limit == 1

Tracks == 1..NumTracks

None == "None"
Some == "Some"
\* Some(LyricsResult { synced: None, unsynced: None, .. }): what
\* download_lyrics_for_embedding returns when no provider has lyrics.
SomeEmpty == "SomeEmpty"

\* Option<PathBuf>::None, and the id of TrackMetadata::default().
NoPath == [dir |-> "", stem |-> 0, ext |-> <<>>]
UnknownTrack == 0

\* DownloadStage (downloader/mod.rs), in declaration order.
Stages == <<"Queued", "FetchingMetadata", "SearchingSource", "DownloadingAudio",
            "ConvertingAudio", "DownloadingCover", "DownloadingLyrics",
            "EmbeddingMetadata", "Completed", "Error">>

\* AudioFormat (config.rs).
Formats == {"mp3", "m4a", "flac", "wav"}

\* Bitrate (config.rs).
Bitrates == {"Kbps128", "Kbps192", "Kbps256", "Kbps320"}

\* The DownloadOptions fields the orchestrator reads.
AllOptions == [format : Formats, bitrate : Bitrates, download_cover : BOOLEAN,
               download_lyrics : BOOLEAN, embed_metadata : BOOLEAN]

\* The options of the batch runs: mp3, lyrics and embedding on, no cover.
BatchOptions == {o \in AllOptions : /\ o.format = "mp3"
                                    /\ o.bitrate = "Kbps320"
                                    /\ ~o.download_cover
                                    /\ o.download_lyrics
                                    /\ o.embed_metadata}

VARIABLES
    options,        \* DownloadOptions of the call (immutable during a run)
    batch,          \* number of tracks handed to download_tracks
    tracks,         \* the tracks handed to download_tracks: id and artist+title
    mainPc,         \* download_tracks: "spawning", "joining", "returned"
    spawned,        \* handles.len(): units spawned so far
    results,        \* results: Vec<DownloadTaskResult> of download_tracks
    permits,        \* available permits of the semaphore
    pc,             \* per unit: position (the .await it is suspended at)
    holds,          \* per unit: _permit is alive
    outcome,        \* per unit: what its JoinHandle yields
    emitted,        \* per unit: every DownloadProgress it sent, in send order
    trackChan,      \* per unit: track_progress_tx/rx, events not yet relayed
    global,         \* aggregation channel: per track_id, the events carrying it
    search_cache,   \* per unit: AudioDownloader.search_cache
    search_results, \* per unit: local search_results of download_track
    converted_path, \* per unit: local converted_path of download_track
    cover_art_data, \* per unit: local cover_art_data of download_track
    lyrics_data,    \* per unit: local lyrics_data of download_track
    invoked,        \* per unit: collaborator calls made by its pipeline run
    searched,       \* per unit: what search_optimized returned to its run
    fetched         \* per unit: what download_audio returned to its run

\* One call of YoutubeDownloader::search_optimized (downloader/youtube.rs).
VARIABLES
    search_pc,      \* "idle", "awaiting" (suspended on a tier's yt-dlp), "returned",
                    \* "fetching" (the caller has taken its candidate)
    tier_calls,     \* the search_with_yt_dlp calls made so far, in order
    tier_outs,      \* what each of these calls returned, in order
    all_results,    \* local all_results of search_optimized
    search_ret,     \* the value search_optimized returned
    best_match      \* {} until download_track has taken its candidate, then {it}

\* One call of AudioConverter::needs_conversion (downloader/converter.rs).
VARIABLES
    conversion_args,    \* the arguments, and whether input_path exists on disk
    conversion_needed   \* {} until the call returns, then {the value returned}

\* The process-wide API manager (api/mod.rs) and the HTTP client each unit
\* is given.
VARIABLES
    api_manager,    \* API_MANAGER is Some: init_api_manager has been called
    client          \* per unit: "none" before it is spawned, then "managed"
                    \* (the manager's client) or "fresh" (reqwest::Client::new())

\* One call of YoutubeDownloader::is_track (downloader/youtube.rs).
VARIABLES
    title_words,    \* the words of the title passed in, separated by one space
    title_ret       \* {} until the call returns, then {the value returned}

\* One serialisation of synced lyrics by convert_to_lrc followed by one
\* parse_lrc_content of the string it produced.
VARIABLES
    lrc_lyrics,     \* the SyncedLyrics passed to convert_to_lrc
    lrc_pc,         \* "idle", "called", "serialized", "parsed"
    lrc_content,    \* the String convert_to_lrc returned
    lrc_parsed      \* what parse_lrc_content returned

\* One call of one of the three sanitize_filename functions.
VARIABLES
    sanitize_args,  \* which copy is called ("audio", "covers", "lyrics"), and on what
    sanitize_ret    \* {} until the call returns, then {the String returned}

\* The enrichment of one track (audio.rs 164-240): cover_future and
\* lyrics_future under tokio::join!.
VARIABLES
    enrich_opts,    \* the DownloadOptions of the call
    enrich_pc,      \* "idle", "called", "joining" (inside join!), "embedding"
    cover_future,   \* "none" (Option None), "created", "pending", "ready"
    lyrics_future,  \* the same for the lyrics
    cover_result,   \* what the cover branch of join! evaluated to
    lyrics_result   \* what the lyrics branch of join! evaluated to

\* One call of YoutubeDownloader::download_with_yt_dlp (youtube.rs 248-345).
VARIABLES
    dl_pc,              \* "idle", "called", "spawn", "waiting", "rename", "cleanup", "returned"
    dl_callback,        \* progress_callback is Some
    temp_created,       \* the temp directory has been created by this call
    child_status,       \* "none", "spawn_err", "wait_err", "nonzero", "zero"
    output_file,        \* "none", "downloaded" (in output_dir as yt-dlp named it), "expected"
    temp_files,         \* the files in the temp directory
    cleanup_attempted,  \* cleanup_temp_files has been called
    cleanup_log,        \* the files whose removal failed and was logged
    dl_progress,        \* the fractions passed to the callback, in hundredths
    dl_ret              \* what the call returned

\* One lookup of the lyrics of a track: download_lyrics_for_embedding or
\* download_lyrics (lyrics/lyrics.rs).
VARIABLES
    lyr_entry,      \* "embedding" (download_lyrics_for_embedding) or "files" (download_lyrics)
    lyr_pc,         \* "idle", "called", "awaiting" (a provider), "saving", "returned"
    lyr_calls,      \* the provider calls made so far, in order
    lyr_outs,       \* for each call that returned, whether it returned Ok
    lyr_result,     \* the LyricsResult under construction
    lyr_ret         \* what the lookup returned

\* Several calls of download_with_yt_dlp of one batch running at once: they
\* share <output_dir>/tracks and <output_dir>/tracks/temp.
VARIABLES
    fetch_pc,       \* per fetch: "idle", "called", "waiting", "rename", "cleanup", "returned"
    base_name,      \* per fetch: output_template, the stem of its output_path
    output_dir,     \* the files in tracks/: name, and the fetch whose yt-dlp wrote it
    temp_dir,       \* the files in tracks/temp: name, and the fetch whose yt-dlp wrote it
    renamed,        \* per fetch: {} or {the file rename_downloaded_file took}
    removed         \* per fetch: the files its cleanup_temp_files removed, each with
                    \* whether its writer was still running then

\* The track list of the GUI (ui/iced.rs) and the pipeline runs it has
\* started.
VARIABLES
    track_status,       \* per track: TrackItem.status
    selected_tracks,    \* the tracks selected in the list
    single_runs,        \* per track: runs started by DownloadTrack or
                        \* DownloadSelectedTracks that have not returned
    batches             \* the calls of download_tracks that have not been reported:
                        \* the tracks whose unit is running, and the results so far

\* One call of MetadataEmbedder::embed_metadata (downloader/metadata.rs).
VARIABLES
    embed_args,     \* the extension of file_path, the track's fields and the
                    \* embed_* toggles of the DownloadOptions
    tag_written     \* {} until the call returns, then {the set of fields written}

pipelineVars == <<options, batch, tracks, mainPc, spawned, results, permits, pc, holds,
                  outcome, emitted, trackChan, global, search_cache,
                  search_results, converted_path, cover_art_data, lyrics_data,
                  invoked, searched, fetched, api_manager, client>>

searchVars == <<search_pc, tier_calls, tier_outs, all_results, search_ret, best_match>>
conversionVars == <<conversion_args, conversion_needed>>
titleVars == <<title_words, title_ret>>

lrcVars == <<lrc_lyrics, lrc_pc, lrc_content, lrc_parsed>>

sanitizeVars == <<sanitize_args, sanitize_ret>>
enrichVars == <<enrich_opts, enrich_pc, cover_future, lyrics_future, cover_result,
                lyrics_result>>
ytdlpVars == <<dl_pc, dl_callback, temp_created, child_status, output_file, temp_files,
               cleanup_attempted, cleanup_log, dl_progress, dl_ret>>
lyricsVars == <<lyr_entry, lyr_pc, lyr_calls, lyr_outs, lyr_result, lyr_ret>>
fetchesVars == <<fetch_pc, base_name, output_dir, temp_dir, renamed, removed>>
guiVars == <<track_status, selected_tracks, single_runs, batches>>
tagsVars == <<embed_args, tag_written>>

calleeVars == <<searchVars, conversionVars, titleVars, lrcVars, sanitizeVars, enrichVars, ytdlpVars, lyricsVars, fetchesVars, guiVars, tagsVars>>

\* What a call of one function leaves alone: everything but its own state.
outsideSearch == <<pipelineVars, conversionVars, titleVars, lrcVars, sanitizeVars, enrichVars, ytdlpVars, lyricsVars, fetchesVars, guiVars, tagsVars>>
outsideConversion == <<pipelineVars, searchVars, titleVars, lrcVars, sanitizeVars, enrichVars, ytdlpVars, lyricsVars, fetchesVars, guiVars, tagsVars>>
outsideTitle == <<pipelineVars, searchVars, conversionVars, lrcVars, sanitizeVars, enrichVars, ytdlpVars, lyricsVars, fetchesVars, guiVars, tagsVars>>
outsideLrc == <<pipelineVars, searchVars, conversionVars, titleVars, sanitizeVars, enrichVars, ytdlpVars, lyricsVars, fetchesVars, guiVars, tagsVars>>
outsideSanitize == <<pipelineVars, searchVars, conversionVars, titleVars, lrcVars, enrichVars, ytdlpVars, lyricsVars, fetchesVars, guiVars, tagsVars>>
outsideEnrich == <<pipelineVars, searchVars, conversionVars, titleVars, lrcVars, sanitizeVars, ytdlpVars, lyricsVars, fetchesVars, guiVars, tagsVars>>
outsideYtdlp == <<pipelineVars, searchVars, conversionVars, titleVars, lrcVars, sanitizeVars, enrichVars, lyricsVars, fetchesVars, guiVars, tagsVars>>
outsideLyrics == <<pipelineVars, searchVars, conversionVars, titleVars, lrcVars, sanitizeVars, enrichVars, ytdlpVars, fetchesVars, guiVars, tagsVars>>
outsideFetches == <<pipelineVars, searchVars, conversionVars, titleVars, lrcVars, sanitizeVars, enrichVars, ytdlpVars, lyricsVars, guiVars, tagsVars>>
outsideGui == <<pipelineVars, searchVars, conversionVars, titleVars, lrcVars, sanitizeVars, enrichVars, ytdlpVars, lyricsVars, fetchesVars, tagsVars>>
outsideTags == <<pipelineVars, searchVars, conversionVars, titleVars, lrcVars, sanitizeVars, enrichVars, ytdlpVars, lyricsVars, fetchesVars, guiVars>>

vars == <<pipelineVars, calleeVars>>

\* No call of search_optimized is under way.
SearchIdle ==
    /\ search_pc = "idle"
    /\ tier_calls = <<>>
    /\ tier_outs = <<>>
    /\ all_results = <<>>
    /\ search_ret = [ok |-> TRUE, results |-> <<>>]
    /\ best_match = {}

\* No call of needs_conversion is under way.
ConversionIdle ==
    /\ conversion_args = [exists |-> FALSE, ext |-> <<>>, format |-> "mp3",
                          bitrate |-> "Kbps320"]
    /\ conversion_needed = {FALSE}

\* No call of is_track is under way.
TitleIdle ==
    /\ title_words = <<>>
    /\ title_ret = {TRUE}

\* No lyrics are being serialised or parsed.
LrcIdle ==
    /\ lrc_lyrics = [lines |-> <<>>, offset |-> 0]
    /\ lrc_pc = "idle"
    /\ lrc_content = <<>>
    /\ lrc_parsed = [ok |-> FALSE, panic |-> FALSE, lines |-> <<>>]

\* No call of sanitize_filename is under way.
SanitizeIdle ==
    /\ sanitize_args = [copy |-> "audio", filename |-> <<>>]
    /\ sanitize_ret = {<<>>}

\* No enrichment is under way.
EnrichIdle ==
    /\ enrich_opts = CHOOSE o \in BatchOptions : TRUE
    /\ enrich_pc = "idle"
    /\ cover_future = "none"
    /\ lyrics_future = "none"
    /\ cover_result = None
    /\ lyrics_result = None

\* No call of download_with_yt_dlp is under way.
YtdlpIdle ==
    /\ dl_pc = "idle"
    /\ dl_callback = FALSE
    /\ temp_created = FALSE
    /\ child_status = "none"
    /\ output_file = "none"
    /\ temp_files = {}
    /\ cleanup_attempted = FALSE
    /\ cleanup_log = {}
    /\ dl_progress = <<>>
    /\ dl_ret = [ok |-> FALSE, error |-> None]

\* LyricsResult with nothing in it (lyrics.rs 135-140).
EmptyLyrics ==
    [synced |-> None, unsynced |-> None, synced_path |-> FALSE, unsynced_path |-> FALSE]

\* No lyrics lookup is under way.
LyricsIdle ==
    /\ lyr_entry = "embedding"
    /\ lyr_pc = "idle"
    /\ lyr_calls = <<>>
    /\ lyr_outs = <<>>
    /\ lyr_result = EmptyLyrics
    /\ lyr_ret = [ok |-> TRUE]

\* No fetch of a shared directory is under way.
FetchesIdle ==
    /\ fetch_pc = <<>>
    /\ base_name = <<>>
    /\ output_dir = {}
    /\ temp_dir = {}
    /\ renamed = <<>>
    /\ removed = <<>>

\* The GUI has no track list.
GuiIdle ==
    /\ track_status = <<>>
    /\ selected_tracks = {}
    /\ single_runs = <<>>
    /\ batches = <<>>

\* No call of embed_metadata is under way.
TagsIdle ==
    /\ embed_args = <<>>
    /\ tag_written = {{}}

CalleesIdle == SearchIdle /\ ConversionIdle /\ TitleIdle /\ LrcIdle /\ SanitizeIdle /\ EnrichIdle /\ YtdlpIdle /\ LyricsIdle /\ FetchesIdle /\ GuiIdle /\ TagsIdle


\* str::to_lowercase; a String is the sequence of its characters.
LowerOf ==
    ("A" :> "a") @@ ("B" :> "b") @@ ("C" :> "c") @@ ("D" :> "d") @@ ("E" :> "e")
    @@ ("F" :> "f") @@ ("G" :> "g") @@ ("H" :> "h") @@ ("I" :> "i") @@ ("J" :> "j")
    @@ ("K" :> "k") @@ ("L" :> "l") @@ ("M" :> "m") @@ ("N" :> "n") @@ ("O" :> "o")
    @@ ("P" :> "p") @@ ("Q" :> "q") @@ ("R" :> "r") @@ ("S" :> "s") @@ ("T" :> "t")
    @@ ("U" :> "u") @@ ("V" :> "v") @@ ("W" :> "w") @@ ("X" :> "x") @@ ("Y" :> "y")
    @@ ("Z" :> "z")

to_lowercase(str) ==
    [i \in DOMAIN str |-> IF str[i] \in DOMAIN LowerOf THEN LowerOf[str[i]] ELSE str[i]]

\* DownloadProgress as sent by track t (the message text is left out).
\* progress is the f32 fraction in hundredths.
Event(t, stage, progress) ==
    [track_id |-> t, stage |-> stage, progress |-> progress]

\* The extension of a format: the match of audio.rs 389-394 and
\* converter.rs 154-159.
extension_of(format) ==
    CASE format = "mp3" -> <<"m", "p", "3">>
      [] format = "m4a" -> <<"m", "4", "a">>
      [] format = "flac" -> <<"f", "l", "a", "c">>
      [] OTHER -> <<"w", "a", "v">>

\* An output path that carries the extension of the container yt-dlp
\* fetched, whatever the format asked for.
get_output_path_as_fetched(t, opts) ==
    [dir |-> "tracks", stem |-> tracks[t].song, ext |-> <<"w", "e", "b", "m">>]

\* get_output_path: <output_dir>/tracks/<Artist> - <Title>.<ext of options.format>
get_output_path(t, opts) ==
    [dir |-> "tracks", stem |-> tracks[t].song, ext |-> extension_of(opts.format)]

\* A comparison of the extension as it is spelled.
needs_conversion_case_sensitive(exists, input_path, format, bitrate) ==
    IF ~exists THEN FALSE
    ELSE IF input_path.ext # extension_of(format) THEN TRUE ELSE FALSE

\* AudioConverter::needs_conversion (converter.rs 141-170). exists is
\* input_path.exists(); the bitrate is not looked at.
needs_conversion(exists, input_path, format, bitrate) ==
    IF ~exists THEN FALSE
    ELSE LET input_ext == to_lowercase(input_path.ext)
             target_ext == extension_of(format)
         IN  IF input_ext # target_ext THEN TRUE ELSE FALSE

\* AudioDownloader::convert_audio (audio.rs 403-460); conv is the outcome of
\* the transcoder (converter.convert_audio), used only when a conversion is
\* needed. calls tells whether the transcoder was run, and whether it wrote
\* to a temporary file because output_path was input_path (audio.rs 432-441).
convert_audio(input_path, opts, conv) ==
    IF ~needs_conversion(TRUE, input_path, opts.format, opts.bitrate)
    THEN [ok |-> TRUE, path |-> input_path, error |-> None, calls |-> {}]
    ELSE LET output_path == [input_path EXCEPT !.ext = extension_of(opts.format)]
             calls == {"converter.convert_audio"}
                      \cup (IF input_path = output_path THEN {"temp_convert"} ELSE {})
         IN  IF conv = "err"
             THEN [ok |-> FALSE, path |-> NoPath, error |-> "Conversion", calls |-> calls]
             ELSE [ok |-> TRUE,
                   path |-> IF input_path = output_path THEN input_path ELSE output_path,
                   error |-> None, calls |-> calls]

\* A stretch of download_track up to its next suspension point or its return:
\* the events it sends, the collaborators it calls, where it suspends
\* (next), and its return value when next = "finished".
Stretch(events, calls, next, ret) ==
    [events |-> events, calls |-> calls, next |-> next, ret |-> ret]

Ok(path) == [ok |-> TRUE, path |-> path, error |-> None]
Err(e) == [ok |-> FALSE, path |-> NoPath, error |-> e]

\* The last stretch with its two sends in the wrong order: Completed first.
complete_step_swapped(t, opts, cover, path) ==
    IF opts.download_cover /\ cover # None
    THEN Stretch(<<Event(t, "Completed", 100), Event(t, "DownloadingCover", 95)>>,
                 {"save_cover_art_to_folder"}, "finished", Ok(path))
    ELSE Stretch(<<Event(t, "Completed", 100)>>, {}, "finished", Ok(path))

\* audio.rs 261-298: the best-effort copy of the cover under covers/, then
\* Completed and Ok(converted_path).
complete_step(t, opts, cover, path) ==
    IF opts.download_cover /\ cover # None
    THEN Stretch(<<Event(t, "DownloadingCover", 95), Event(t, "Completed", 100)>>,
                 {"save_cover_art_to_folder"}, "finished", Ok(path))
    ELSE Stretch(<<Event(t, "Completed", 100)>>, {}, "finished", Ok(path))

\* audio.rs 242-259: EmbeddingMetadata and the call of embed_metadata, when
\* options.embed_metadata.
embed_step(t, opts, cover, path) ==
    IF opts.embed_metadata
    THEN Stretch(<<Event(t, "EmbeddingMetadata", 90)>>, {"embed_metadata"},
                 "embed", Ok(path))
    ELSE complete_step(t, opts, cover, path)

\* audio.rs 163-240: the enrichment stage, when a cover or lyrics are wanted.
enrichment_step(t, opts, path) ==
    IF opts.download_cover \/ opts.download_lyrics
    THEN Stretch(<<Event(t, "DownloadingCover", 80)>>,
                 (IF opts.download_cover THEN {"download_cover_art_data"} ELSE {})
                 \cup (IF opts.download_lyrics
                       THEN {"download_lyrics_for_embedding"} ELSE {}),
                 "enrich", Ok(path))
    ELSE embed_step(t, opts, None, path)

\* The fetch callback passing the fraction of yt-dlp through unscaled: 1.0 at
\* the end of the fetch.
fetch_step_raw(t, opts, fetch, conv) ==
    LET output_path == get_output_path(t, opts)
        callback == <<Event(t, "DownloadingAudio", 100)>>
        converted == convert_audio(output_path, opts, conv)
        rest == enrichment_step(t, opts, converted.path)
    IN  CASE fetch = "spawn_failed" ->
                Stretch(<<>>, {}, "finished", Err("Youtube"))
          [] fetch = "exit_failed" ->
                Stretch(callback, {}, "finished", Err("Youtube"))
          [] OTHER ->
                IF ~converted.ok
                THEN Stretch(callback \o <<Event(t, "ConvertingAudio", 60)>>,
                             {"convert_audio"} \cup converted.calls, "finished",
                             Err(converted.error))
                ELSE Stretch(callback \o <<Event(t, "ConvertingAudio", 60)>> \o rest.events,
                             {"convert_audio"} \cup converted.calls \cup rest.calls,
                             rest.next, rest.ret)

\* audio.rs 143-161: what follows the call of download_audio. fetch is the
\* outcome of YoutubeDownloader::download_with_yt_dlp: "spawn_failed" stands for
\* every error before the progress callback runs (youtube.rs 258-318),
\* "exit_failed" for every error after it (youtube.rs 331-342).
fetch_step(t, opts, fetch, conv) ==
    LET output_path == get_output_path(t, opts)
        callback == <<Event(t, "DownloadingAudio", 60)>>
        converted == convert_audio(output_path, opts, conv)
        rest == enrichment_step(t, opts, converted.path)
    IN  CASE fetch = "spawn_failed" ->
                Stretch(<<>>, {}, "finished", Err("Youtube"))
          [] fetch = "exit_failed" ->
                Stretch(callback, {}, "finished", Err("Youtube"))
          [] OTHER ->
                IF ~converted.ok
                THEN Stretch(callback \o <<Event(t, "ConvertingAudio", 60)>>,
                             {"convert_audio"} \cup converted.calls, "finished",
                             Err(converted.error))
                ELSE Stretch(callback \o <<Event(t, "ConvertingAudio", 60)>> \o rest.events,
                             {"convert_audio"} \cup converted.calls \cup rest.calls,
                             rest.next, rest.ret)

\* audio.rs 299-373: the branch taken when search_results is empty at line 114.
\* sc is the outcome of soundcloud_downloader.search_tracks, avail of
\* ytdlp_downloader.is_available, dl of ytdlp_downloader.download_audio.
fallback_chain(t, opts, sc, avail, dl) ==
    LET error == <<Event(t, "Error", 0)>>
        start == <<Event(t, "DownloadingAudio", 30)>>
        done == <<Event(t, "Completed", 100)>>
        path == get_output_path(t, opts)
    IN  IF sc = "found"
        THEN Stretch(error \o start \o done, {"soundcloud.search_tracks"},
                     "finished", Ok(path))
        ELSE IF avail
             THEN IF dl = "ok"
                  THEN Stretch(error \o start \o done,
                               {"soundcloud.search_tracks", "ytdlp.download_audio"},
                               "finished", Ok(path))
                  ELSE Stretch(error \o start,
                               {"soundcloud.search_tracks", "ytdlp.download_audio"},
                               "finished", Err("YtDlp"))
             ELSE Stretch(error, {"soundcloud.search_tracks"}, "finished",
                          Err("No audio source found"))


\* What YoutubeDownloader::search_optimized can return: it swallows the error
\* of every tier (youtube.rs 42-65), so it always returns Ok; the tier that
\* answered yields at most one candidate (youtube.rs 174-228).
SearchOutputs ==
    {[ok |-> TRUE, results |-> r] :
        r \in {<<>>, <<[platform |-> "YouTube"]>>}}

\* The outcomes of the collaborators of the fallback branch (audio.rs 299-373),
\* drawn where download_track holds an empty candidate list at line 114.
FallbackInputs(candidates) ==
    IF candidates = <<>>
    THEN [sc : {"found", "empty"}, avail : BOOLEAN, dl : {"ok", "err"}]
    ELSE {[sc |-> "empty", avail |-> FALSE, dl |-> "err"]}

\* format!("{} {}", track.artist, track.title)
search_query(t) == tracks[t].song

\* audio.rs 114-150 and 299-373: with the candidates in hand.
found_step(t, opts, candidates, fb) ==
    IF candidates # <<>>
    THEN Stretch(<<Event(t, "DownloadingAudio", 30)>>, {"download_audio"},
                 "fetch", Ok(NoPath))
    ELSE fallback_chain(t, opts, fb.sc, fb.avail, fb.dl)

\* The match without the early return of the Ok(_) arm: an empty list goes on
\* to the emptiness check of line 114 and into the fallback branch.
search_step_fallthrough(t, opts, out, fb) ==
    IF out.ok
    THEN found_step(t, opts, out.results, fb)
    ELSE Stretch(<<Event(t, "Error", 0)>>, {}, "finished", Err("Search failed"))

\* audio.rs 79-112: the match on the result of search_optimized.
search_step(t, opts, out, fb) ==
    IF out.ok /\ out.results # <<>>
    THEN found_step(t, opts, out.results, fb)
    ELSE IF out.ok
         THEN Stretch(<<Event(t, "Error", 0)>>, {}, "finished",
                      Err("No results found"))
         ELSE Stretch(<<Event(t, "Error", 0)>>, {}, "finished",
                      Err("Search failed"))

\* audio.rs 59-79: SearchingSource, then the cache lookup.
start_step(t, opts, cache, fb) ==
    LET first == <<Event(t, "SearchingSource", 10)>>
        hit == found_step(t, opts, cache[search_query(t)], fb)
    IN  IF search_query(t) \in DOMAIN cache
        THEN Stretch(first \o hit.events, hit.calls, hit.next, hit.ret)
        ELSE Stretch(first, {"search_optimized"}, "search", Ok(NoPath))

\* async_manager.rs 124-137: the unit's DownloadTaskResult.
task_result(t, ret) ==
    [track |-> t, success |-> ret.ok, output_path |-> ret.path, error |-> ret.error]

\* async_manager.rs 146-162: the result pushed for one awaited handle.
join_result(o) ==
    IF o.state = "panicked"
    THEN [track |-> UnknownTrack, success |-> FALSE, output_path |-> NoPath,
          error |-> "Task failed"]
    ELSE o.value

\* What a unit's JoinHandle yields: nothing yet, the unit's DownloadTaskResult
\* (value; ret is the Result download_track returned to the unit), or a
\* JoinError after a panic.
Running ==
    [state |-> "running", ret |-> Err(None),
     value |-> task_result(UnknownTrack, Err(None))]
Returned(t, ret) ==
    [state |-> "returned", ret |-> ret, value |-> task_result(t, ret)]
Panicked ==
    [state |-> "panicked", ret |-> Err(None),
     value |-> task_result(UnknownTrack, Err(None))]

\* A batch in which every track is another song, and one in which every
\* track is the same song (same artist and title under different ids).
DistinctSongs == [t \in Tracks |-> [id |-> t, song |-> t]]
SameSong == [t \in Tracks |-> [id |-> t, song |-> 1]]

PipelineInitApi(n, opts, list, manager) ==
    /\ api_manager = manager
    /\ client = [t \in Tracks |-> "none"]
    /\ options \in opts
    /\ batch = n
    /\ tracks = list
    /\ mainPc = "spawning"
    /\ spawned = 0
    /\ results = <<>>
    /\ permits = Limit
    /\ pc = [t \in Tracks |-> "unspawned"]
    /\ holds = [t \in Tracks |-> FALSE]
    /\ outcome = [t \in Tracks |-> Running]
    /\ emitted = [t \in Tracks |-> <<>>]
    /\ trackChan = [t \in Tracks |-> <<>>]
    /\ global = [t \in Tracks |-> <<>>]
    /\ search_cache = [t \in Tracks |-> <<>>]
    /\ search_results = [t \in Tracks |-> <<>>]
    /\ converted_path = [t \in Tracks |-> NoPath]
    /\ cover_art_data = [t \in Tracks |-> None]
    /\ lyrics_data = [t \in Tracks |-> None]
    /\ invoked = [t \in Tracks |-> {}]
    /\ searched = [t \in Tracks |-> None]
    /\ fetched = [t \in Tracks |-> None]

\* The state in which the application calls download_tracks: main.rs and
\* cli.rs have called init_api_manager.
PipelineInit(n, opts, list) == PipelineInitApi(n, opts, list, TRUE)

InitBatch(n, opts, list) == PipelineInit(n, opts, list) /\ CalleesIdle

InitWith(n, opts) == InitBatch(n, opts, DistinctSongs)

\* A batch of NumTracks tracks under the batch options.
Init == InitWith(NumTracks, BatchOptions)

\* A batch of one track under every combination of the options.
InitTrack == InitWith(1, AllOptions)

\* api/mod.rs 236-242: Err while API_MANAGER is None.
get_api_manager(manager) == [ok |-> manager]

\* async_manager.rs 56-58: the manager's client, or a new one when
\* get_api_manager returned Err.
unit_client(manager) == IF get_api_manager(manager).ok THEN "managed" ELSE "fresh"

\* A unit that ends without giving its permit back.
ReleaseKeepsPermit(t) ==
    /\ permits' = permits
    /\ holds' = [holds EXCEPT ![t] = FALSE]
    /\ search_cache' = [search_cache EXCEPT ![t] = <<>>]
    /\ search_results' = [search_results EXCEPT ![t] = <<>>]
    /\ converted_path' = [converted_path EXCEPT ![t] = NoPath]
    /\ cover_art_data' = [cover_art_data EXCEPT ![t] = None]
    /\ lyrics_data' = [lyrics_data EXCEPT ![t] = None]

\* The unit ends (async_manager.rs 138): _permit is dropped, and so are the
\* unit's AudioDownloader and the locals of download_track.
Release(t) ==
    /\ permits' = permits + 1
    /\ holds' = [holds EXCEPT ![t] = FALSE]
    /\ search_cache' = [search_cache EXCEPT ![t] = <<>>]
    /\ search_results' = [search_results EXCEPT ![t] = <<>>]
    /\ converted_path' = [converted_path EXCEPT ![t] = NoPath]
    /\ cover_art_data' = [cover_art_data EXCEPT ![t] = None]
    /\ lyrics_data' = [lyrics_data EXCEPT ![t] = None]

\* The locals of download_track after a stretch that does not return.
Keep(t, candidates, cache, path, cover, lyrics) ==
    /\ search_cache' = [search_cache EXCEPT ![t] = cache]
    /\ search_results' = [search_results EXCEPT ![t] = candidates]
    /\ converted_path' = [converted_path EXCEPT ![t] = path]
    /\ cover_art_data' = [cover_art_data EXCEPT ![t] = cover]
    /\ lyrics_data' = [lyrics_data EXCEPT ![t] = lyrics]

\* The effect of one stretch of unit t's pipeline run: its events go to the
\* track's own channel; when download_track returns, the unit builds its
\* DownloadTaskResult and ends.
Apply(t, s, candidates, cache, path, cover, lyrics) ==
    /\ emitted' = [emitted EXCEPT ![t] = @ \o s.events]
    /\ trackChan' = [trackChan EXCEPT ![t] = @ \o s.events]
    /\ invoked' = [invoked EXCEPT ![t] = @ \cup s.calls]
    /\ pc' = [pc EXCEPT ![t] = s.next]
    /\ IF s.next = "finished"
       THEN /\ outcome' = [outcome EXCEPT ![t] = Returned(t, s.ret)]
            /\ Release(t)
       ELSE /\ Keep(t, candidates, cache, path, cover, lyrics)
            /\ UNCHANGED <<outcome, permits, holds>>

\* async_manager.rs 53-141: the loop spawns the next unit.
Spawn ==
    /\ mainPc = "spawning"
    /\ spawned < batch
    /\ spawned' = spawned + 1
    /\ pc' = [pc EXCEPT ![spawned + 1] = "start"]
    /\ mainPc' = IF spawned + 1 = batch THEN "joining" ELSE "spawning"
    /\ client' = [client EXCEPT ![spawned + 1] = unit_client(api_manager)]
    /\ UNCHANGED <<calleeVars, api_manager, tracks, options, batch, results, permits, holds, outcome, emitted,
                   trackChan, global, search_cache, search_results,
                   converted_path, cover_art_data, lyrics_data, invoked, searched, fetched>>

\* A unit that goes to the gate without having sent Queued.
StartSilent(t) ==
    /\ pc[t] = "start"
    /\ pc' = [pc EXCEPT ![t] = "acquire"]
    /\ UNCHANGED <<calleeVars, api_manager, client, tracks, options, batch, mainPc, spawned, results, permits, holds,
                   outcome, emitted, global, trackChan, search_cache,
                   search_results, converted_path, cover_art_data, lyrics_data,
                   invoked, searched, fetched>>

\* async_manager.rs 64-75: the unit starts, sends Queued on the aggregation
\* channel and suspends on semaphore.acquire().
Start(t) ==
    /\ pc[t] = "start"
    /\ emitted' = [emitted EXCEPT ![t] = Append(@, Event(t, "Queued", 0))]
    /\ global' = [global EXCEPT ![t] = Append(@, Event(t, "Queued", 0))]
    /\ pc' = [pc EXCEPT ![t] = "acquire"]
    /\ UNCHANGED <<calleeVars, api_manager, client, tracks, options, batch, mainPc, spawned, results, permits, holds,
                   outcome, trackChan, search_cache, search_results,
                   converted_path, cover_art_data, lyrics_data, invoked, searched, fetched>>

\* A unit that skips the gate: it goes on whether or not a permit is free.
CanAcquireAlways(available) == TRUE

\* Semaphore::acquire (async_manager.rs 75) resolves only while a permit is free.
CanAcquire(available) == available > 0

\* async_manager.rs 75-122 and audio.rs 59-79: a permit is granted; the unit
\* sends SearchingSource on the aggregation channel, opens the track's own
\* channel, spawns its forwarder and enters download_track, which runs up to
\* the call of search_optimized.
Acquire(t) ==
    /\ pc[t] = "acquire"
    /\ CanAcquire(permits)
    /\ \E fb \in FallbackInputs(IF search_query(t) \in DOMAIN search_cache[t]
                               THEN search_cache[t][search_query(t)]
                               ELSE <<[platform |-> "YouTube"]>>) :
        LET s == start_step(t, options, search_cache[t], fb)
            direct == Event(t, "SearchingSource", 10)
        IN  /\ permits' = IF s.next = "finished" THEN permits ELSE permits - 1
            /\ holds' = [holds EXCEPT ![t] = s.next # "finished"]
            /\ search_results' =
                 IF s.next \notin {"finished", "search"}
                 THEN [search_results EXCEPT ![t] = search_cache[t][search_query(t)]]
                 ELSE search_results
            /\ global' = [global EXCEPT ![t] = Append(@, direct)]
            /\ emitted' = [emitted EXCEPT ![t] = Append(@, direct) \o s.events]
            /\ trackChan' = [trackChan EXCEPT ![t] = @ \o s.events]
            /\ invoked' = [invoked EXCEPT ![t] = @ \cup s.calls]
            /\ pc' = [pc EXCEPT ![t] = s.next]
            /\ outcome' = IF s.next = "finished"
                          THEN [outcome EXCEPT ![t] = Returned(t, s.ret)]
                          ELSE outcome
    /\ UNCHANGED <<calleeVars, api_manager, client, tracks, options, batch, mainPc, spawned, results, search_cache,
                   converted_path, cover_art_data, lyrics_data, searched, fetched>>

\* audio.rs 79-150: search_optimized returns.
Search(t) ==
    /\ pc[t] = "search"
    /\ \E out \in SearchOutputs :
       \E fb \in FallbackInputs(out.results) :
          /\ Apply(t, search_step(t, options, out, fb), out.results,
              (search_query(t) :> out.results) @@ search_cache[t],
              converted_path[t], cover_art_data[t], lyrics_data[t])
          /\ searched' = [searched EXCEPT
                            ![t] = IF ~out.ok THEN "failed"
                                   ELSE IF out.results = <<>> THEN "empty" ELSE "found"]
    /\ UNCHANGED <<calleeVars, api_manager, client, tracks, options, batch, mainPc, spawned, results, global, fetched>>

FetchOutcomes == {"ok", "spawn_failed", "exit_failed"}

\* The transcoder's outcomes, drawn where convert_audio calls it.
ConvOutcomes(fetch, input_path, opts) ==
    IF fetch = "ok" /\ needs_conversion(TRUE, input_path, opts.format, opts.bitrate)
    THEN {"ok", "err"}
    ELSE {"ok"}

\* audio.rs 143-259: download_audio returns.
Fetch(t) ==
    /\ pc[t] = "fetch"
    /\ \E fetch \in FetchOutcomes :
       \E conv \in ConvOutcomes(fetch, get_output_path(t, options), options) :
        /\ Apply(t, fetch_step(t, options, fetch, conv), search_results[t],
                 search_cache[t],
                 convert_audio(get_output_path(t, options), options, conv).path,
                 cover_art_data[t], lyrics_data[t])
        /\ fetched' = [fetched EXCEPT ![t] = fetch]
    /\ UNCHANGED <<calleeVars, api_manager, client, tracks, options, batch, mainPc, spawned, results, global, searched>>

\* What each half of the enrichment can resolve to (audio.rs 203-235).
CoverOutcomes(opts) == IF opts.download_cover THEN {Some, None} ELSE {None}
\* download_lyrics_for_embedding (lyrics.rs 131-159) always returns Ok: the
\* Err arm of audio.rs 224-227 is never taken.
LyricsOutcomes(opts) == IF opts.download_lyrics THEN {Some, SomeEmpty} ELSE {None}

\* audio.rs 202-259: tokio::join! of the cover and the lyrics fetch returns.
Enrich(t) ==
    /\ pc[t] = "enrich"
    /\ \E cover \in CoverOutcomes(options), lyrics \in LyricsOutcomes(options) :
        Apply(t, embed_step(t, options, cover, converted_path[t]),
              search_results[t], search_cache[t], converted_path[t], cover, lyrics)
    /\ UNCHANGED <<calleeVars, api_manager, client, tracks, options, batch, mainPc, spawned, results, global, searched, fetched>>

\* MetadataEmbedder::embed_metadata returns Ok or Err, or panics
\* (metadata.rs 479 unwraps the primary tag).
EmbedOutcomes == {"ok", "err", "panic"}

\* An embedding whose error is kept until the end of the run: the cover is
\* saved and Completed is sent before the error is returned.
EmbedFailsLate(t) ==
    /\ pc[t] = "embed"
    /\ \E e \in EmbedOutcomes :
        LET done == complete_step(t, options, cover_art_data[t], converted_path[t])
        IN  CASE e = "ok" ->
                   Apply(t, done, search_results[t], search_cache[t],
                         converted_path[t], cover_art_data[t], lyrics_data[t])
              [] e = "err" ->
                   Apply(t, Stretch(done.events, done.calls, "finished", Err("Metadata")),
                         search_results[t], search_cache[t], converted_path[t],
                         cover_art_data[t], lyrics_data[t])
              [] OTHER ->
                   /\ pc' = [pc EXCEPT ![t] = "finished"]
                   /\ outcome' = [outcome EXCEPT ![t] = Panicked]
                   /\ Release(t)
                   /\ UNCHANGED <<emitted, trackChan, invoked>>
    /\ UNCHANGED <<calleeVars, api_manager, client, tracks, options, batch, mainPc, spawned, results, global, searched, fetched>>

\* audio.rs 252-298: embed_metadata returns.
Embed(t) ==
    /\ pc[t] = "embed"
    /\ \E e \in EmbedOutcomes :
        CASE e = "ok" ->
               Apply(t, complete_step(t, options, cover_art_data[t], converted_path[t]),
                     search_results[t], search_cache[t], converted_path[t],
                     cover_art_data[t], lyrics_data[t])
          [] e = "err" ->
               Apply(t, Stretch(<<>>, {}, "finished", Err("Metadata")),
                     search_results[t], search_cache[t], converted_path[t],
                     cover_art_data[t], lyrics_data[t])
          [] OTHER ->
               /\ pc' = [pc EXCEPT ![t] = "finished"]
               /\ outcome' = [outcome EXCEPT ![t] = Panicked]
               /\ Release(t)
               /\ UNCHANGED <<emitted, trackChan, invoked>>
    /\ UNCHANGED <<calleeVars, api_manager, client, tracks, options, batch, mainPc, spawned, results, global, searched, fetched>>

\* A relay that does not keep the order: any waiting event may go next (one
\* task spawned per event).
ForwardAny(t) ==
    /\ trackChan[t] # <<>>
    /\ \E i \in 1..Len(trackChan[t]) :
         /\ global' = [global EXCEPT
                          ![t] = Append(@, [trackChan[t][i] EXCEPT !.track_id = t])]
         /\ trackChan' = [trackChan EXCEPT
                            ![t] = SubSeq(@, 1, i - 1) \o SubSeq(@, i + 1, Len(@))]
    /\ UNCHANGED <<calleeVars, api_manager, client, tracks, options, batch, mainPc, spawned, results, permits, pc, holds,
                   outcome, emitted, search_cache, search_results,
                   converted_path, cover_art_data, lyrics_data, invoked, searched, fetched>>

\* async_manager.rs 105-114: the forwarder relays the oldest event of the
\* track's own channel to the aggregation channel under the captured track_id.
Forward(t) ==
    /\ trackChan[t] # <<>>
    /\ LET progress == Head(trackChan[t])
           track_id == t
       IN  global' = [global EXCEPT
                        ![track_id] = Append(@, [progress EXCEPT !.track_id = track_id])]
    /\ trackChan' = [trackChan EXCEPT ![t] = Tail(@)]
    /\ UNCHANGED <<calleeVars, api_manager, client, tracks, options, batch, mainPc, spawned, results, permits, pc, holds,
                   outcome, emitted, search_cache, search_results,
                   converted_path, cover_art_data, lyrics_data, invoked, searched, fetched>>

\* A handle taken as resolved whether or not its unit has ended.
HandleReadyAlways(i) == TRUE

\* handle.await (async_manager.rs 146) resolves once the unit has ended.
HandleReady(i) == pc[i] = "finished"

\* A join loop that gives up the batch at the first JoinError (handle.await?).
JoinAbortsOnPanic ==
    /\ mainPc = "joining"
    /\ Len(results) < batch
    /\ HandleReady(Len(results) + 1)
    /\ IF outcome[Len(results) + 1].state = "panicked"
       THEN /\ results' = results
            /\ mainPc' = "returned"
       ELSE /\ results' = Append(results, outcome[Len(results) + 1].value)
            /\ mainPc' = IF Len(results) + 1 = batch THEN "returned" ELSE "joining"
    /\ UNCHANGED <<calleeVars, api_manager, client, tracks, options, batch, spawned, permits, pc, holds, outcome, emitted,
                   trackChan, global, search_cache, search_results,
                   converted_path, cover_art_data, lyrics_data, invoked, searched, fetched>>

\* async_manager.rs 143-165: the next handle, in submission order, is awaited;
\* after the last one download_tracks returns Ok(results).
Join ==
    /\ mainPc = "joining"
    /\ Len(results) < batch
    /\ HandleReady(Len(results) + 1)
    /\ results' = Append(results, join_result(outcome[Len(results) + 1]))
    /\ mainPc' = IF Len(results) + 1 = batch THEN "returned" ELSE "joining"
    /\ UNCHANGED <<calleeVars, api_manager, client, tracks, options, batch, spawned, permits, pc, holds, outcome, emitted,
                   trackChan, global, search_cache, search_results,
                   converted_path, cover_art_data, lyrics_data, invoked, searched, fetched>>

Next ==
    \/ Spawn
    \/ Join
    \/ \E t \in Tracks : Start(t)
    \/ \E t \in Tracks : Acquire(t)
    \/ \E t \in Tracks : Search(t)
    \/ \E t \in Tracks : Fetch(t)
    \/ \E t \in Tracks : Enrich(t)
    \/ \E t \in Tracks : Embed(t)
    \/ \E t \in Tracks : Forward(t)

Spec == Init /\ [][Next]_vars

SpecTrack == InitTrack /\ [][Next]_vars

\* The runtime does not stop while a task can go on: a task that is ready
\* (the spawn loop, a unit, a forwarder, the join loop) is polled, a free
\* permit is handed to a unit that waits for one, and every collaborator a
\* pipeline run awaits returns.
Fairness == WF_vars(Next)

SpecLive == Init /\ [][Next]_vars /\ Fairness

\* download_tracks is called for one track while init_api_manager has
\* never been called.
InitNoApi == PipelineInitApi(1, AllOptions, DistinctSongs, FALSE) /\ CalleesIdle

SpecNoApi == InitNoApi /\ [][Next]_vars

\* A batch of NumTracks tracks that are all the same song.
InitSameSong == InitBatch(NumTracks, BatchOptions, SameSong)

SpecSameSong == InitSameSong /\ [][Next]_vars

----------------------------------------------------------------------------
\* The search engine: YoutubeDownloader::search_optimized and its filters.
\* A String is the sequence of its characters.

\* Largest duration, in seconds, and largest view count a candidate carries.
MaxDuration == 962
MaxViews == 1

\* str::contains(pat)
contains(str, pat) ==
    \E i \in 0..(Len(str) - Len(pat)) : SubSeq(str, i + 1, i + Len(pat)) = pat

\* str::split(sep).count(): one more than the number of separators found
\* scanning from the left, without overlap.
RECURSIVE split_count(_, _)
split_count(str, sep) ==
    IF Len(str) < Len(sep) THEN 1
    ELSE IF SubSeq(str, 1, Len(sep)) = sep
         THEN 1 + split_count(SubSeq(str, Len(sep) + 1, Len(str)), sep)
         ELSE split_count(Tail(str), sep)

Digits == {"0", "1", "2", "3", "4", "5", "6", "7", "8", "9"}

\* Regex \d{1,2}:\d{2}:\d{2}, unanchored: it matches as soon as one digit
\* is followed by ":dd:dd".
timestamp_match(str) ==
    \E i \in 1..(Len(str) - 6) :
        /\ str[i] \in Digits /\ str[i + 1] = ":"
        /\ str[i + 2] \in Digits /\ str[i + 3] \in Digits /\ str[i + 4] = ":"
        /\ str[i + 5] \in Digits /\ str[i + 6] \in Digits

\* youtube.rs 428-436
non_track_keywords ==
    {<<"a", "l", "b", "u", "m">>,
     <<"m", "i", "x", "t", "a", "p", "e">>,
     <<"e", "p">>,
     <<"c", "o", "m", "p", "i", "l", "a", "t", "i", "o", "n">>,
     <<"c", "o", "l", "l", "e", "c", "t", "i", "o", "n">>,
     <<"p", "l", "a", "y", "l", "i", "s", "t">>,
     <<"f", "u", "l", "l", " ", "a", "l", "b", "u", "m">>,
     <<"c", "o", "m", "p", "l", "e", "t", "e", " ", "a", "l", "b", "u", "m">>,
     <<"d", "e", "l", "u", "x", "e">>,
     <<"e", "x", "t", "e", "n", "d", "e", "d">>,
     <<"r", "e", "m", "a", "s", "t", "e", "r", "e", "d">>,
     <<"l", "i", "v", "e", " ", "a", "l", "b", "u", "m">>,
     <<"s", "t", "u", "d", "i", "o", " ", "a", "l", "b", "u", "m">>,
     <<"b", "e", "s", "t", " ", "o", "f">>,
     <<"g", "r", "e", "a", "t", "e", "s", "t", " ", "h", "i", "t", "s">>,
     <<"s", "o", "u", "n", "d", "t", "r", "a", "c", "k">>,
     <<"s", "c", "o", "r", "e">>,
     <<"i", "n", "s", "t", "r", "u", "m", "e", "n", "t", "a", "l">>,
     <<"a", "c", "o", "u", "s", "t", "i", "c">>,
     <<"u", "n", "p", "l", "u", "g", "g", "e", "d">>,
     <<"r", "e", "m", "i", "x", " ", "a", "l", "b", "u", "m">>,
     <<"d", "u", "b", "s", "t", "e", "p">>,
     <<"h", "o", "u", "s", "e">>,
     <<"t", "e", "c", "h", "n", "o">>,
     <<"t", "r", "a", "n", "c", "e">>,
     <<"d", "r", "u", "m", " ", "a", "n", "d", " ", "b", "a", "s", "s">>,
     <<"m", "i", "x">>,
     <<"m", "a", "s", "h", "u", "p">>,
     <<"m", "a", "s", "h", "-", "u", "p">>,
     <<"b", "o", "o", "t", "l", "e", "g">>,
     <<"u", "n", "o", "f", "f", "i", "c", "i", "a", "l">>,
     <<"f", "u", "l", "l", " ", "m", "i", "x">>,
     <<"c", "o", "n", "t", "i", "n", "u", "o", "u", "s", " ", "m", "i", "x">>,
     <<"d", "j", " ", "m", "i", "x">>,
     <<"r", "a", "d", "i", "o", " ", "s", "h", "o", "w">>,
     <<"p", "o", "d", "c", "a", "s", "t">>,
     <<"i", "n", "t", "e", "r", "v", "i", "e", "w">>}

\* youtube.rs 424-456
is_track(title) ==
    LET title_lower == to_lowercase(title)
        dash == <<" ", "-", " ">>
    IN  IF \E keyword \in non_track_keywords : contains(title_lower, keyword)
        THEN FALSE
        ELSE IF contains(title_lower, dash) /\ split_count(title_lower, dash) > 2
             THEN FALSE
             ELSE IF timestamp_match(title_lower) THEN FALSE ELSE TRUE

\* A filter that lets a one-minute candidate through.
is_valid_duration_minute(duration) ==
    IF duration = {} THEN TRUE
    ELSE \A dur \in duration : dur >= 60 /\ dur <= 960

\* youtube.rs 459-464. An Option<u32> is the set of its values: {} is None.
is_valid_duration(duration) ==
    IF duration = {} THEN TRUE
    ELSE \A dur \in duration : dur >= 61 /\ dur <= 960

\* youtube.rs 67-74: the filter closure of search_optimized.
is_kept(result) == is_track(result.title) /\ is_valid_duration(result.duration)

\* slice::sort_by(|a, b| b.view_count.cmp(&a.view_count)): stable, by
\* non-increasing view_count.
RECURSIVE insert_sorted(_, _)
insert_sorted(sorted, x) ==
    IF sorted = <<>> THEN <<x>>
    ELSE IF Head(sorted).view_count >= x.view_count
         THEN <<Head(sorted)>> \o insert_sorted(Tail(sorted), x)
         ELSE <<x>> \o sorted

RECURSIVE sort_results(_)
sort_results(list) ==
    IF list = <<>> THEN <<>>
    ELSE insert_sorted(sort_results(SubSeq(list, 1, Len(list) - 1)), list[Len(list)])

\* The sort without the filter before it.
sort_unfiltered(all) == [ok |-> TRUE, results |-> sort_results(all)]

\* youtube.rs 67-84: filter, sort, Ok(sorted_results).
filter_and_sort(all) ==
    [ok |-> TRUE, results |-> sort_results(SelectSeq(all, is_kept))]

\* youtube.rs 117-128: search_youtube caps the count at 5, search_soundcloud
\* does not.
search_youtube(max_results) ==
    [platform |-> "YouTube", search_limit |-> IF max_results < 5 THEN max_results ELSE 5]
search_soundcloud(max_results) ==
    [platform |-> "SoundCloud", search_limit |-> max_results]

\* youtube.rs 42-65: the four tiers, in program order.
tier_call(k) ==
    CASE k = 1 -> search_youtube(1)
      [] k = 2 -> search_youtube(5)
      [] k = 3 -> search_soundcloud(1)
      [] OTHER -> search_soundcloud(5)

NumTiers == 4

\* Titles yt-dlp may report.
TitleSamples ==
    {<<"S", "o", "n", "g">>,
     <<"F", "u", "l", "l", " ", "A", "l", "b", "u", "m">>}

\* The SearchResult values search_with_yt_dlp can build (url, uploader and
\* thumbnail are left out).
Candidates(platform) ==
    [title : TitleSamples,
     duration : {{}} \cup {{d} : d \in 0..MaxDuration},
     view_count : 0..MaxViews,
     platform : {platform}]

\* What search_with_yt_dlp can return (youtube.rs 162-230): an error when
\* yt-dlp cannot be run or exits non-zero; otherwise Ok with no result (stdout
\* is not one JSON value) or with the one result parsed from stdout.
TierOutcomes(platform) ==
    {[ok |-> FALSE, results |-> <<>>, error |-> e] :
        e \in {"Failed to execute yt-dlp search", "yt-dlp search failed"}}
    \cup {[ok |-> TRUE, results |-> <<>>, error |-> None]}
    \cup {[ok |-> TRUE, results |-> <<c>>, error |-> None] : c \in Candidates(platform)}

\* search_optimized is called: it calls the first tier and suspends.
SearchBegin ==
    /\ search_pc = "idle"
    /\ search_pc' = "awaiting"
    /\ tier_calls' = <<tier_call(1)>>
    /\ UNCHANGED <<outsideSearch, tier_outs, all_results, search_ret, best_match>>

\* A search that goes through all four tiers whatever they return.
SearchEveryTier ==
    /\ search_pc = "awaiting"
    /\ \E out \in TierOutcomes(tier_calls[Len(tier_calls)].platform) :
        LET all == IF out.ok THEN all_results \o out.results ELSE all_results
        IN  /\ tier_outs' = Append(tier_outs, out)
            /\ all_results' = all
            /\ IF Len(tier_calls) < NumTiers
               THEN /\ tier_calls' = Append(tier_calls, tier_call(Len(tier_calls) + 1))
                    /\ UNCHANGED <<search_pc, search_ret>>
               ELSE /\ search_pc' = "returned"
                    /\ search_ret' = filter_and_sort(all)
                    /\ UNCHANGED tier_calls
    /\ UNCHANGED <<outsideSearch, best_match>>

\* youtube.rs 42-84: the awaited tier returns. An Err is dropped (if let Ok);
\* the next tier is called only while all_results is empty; after that the
\* list is filtered, sorted and returned.
SearchTierReturns ==
    /\ search_pc = "awaiting"
    /\ \E out \in TierOutcomes(tier_calls[Len(tier_calls)].platform) :
        LET all == IF out.ok THEN all_results \o out.results ELSE all_results
        IN  /\ tier_outs' = Append(tier_outs, out)
            /\ all_results' = all
            /\ IF all = <<>> /\ Len(tier_calls) < NumTiers
               THEN /\ tier_calls' = Append(tier_calls, tier_call(Len(tier_calls) + 1))
                    /\ UNCHANGED <<search_pc, search_ret>>
               ELSE /\ search_pc' = "returned"
                    /\ search_ret' = filter_and_sort(all)
                    /\ UNCHANGED tier_calls
    /\ UNCHANGED <<outsideSearch, best_match>>

\* audio.rs 114-150: download_track takes the first result of a list that
\* is not empty and fetches its url.
TakeBestMatch ==
    /\ search_pc = "returned"
    /\ search_ret.ok
    /\ search_ret.results # <<>>
    /\ search_pc' = "fetching"
    /\ best_match' = {search_ret.results[1]}
    /\ UNCHANGED <<outsideSearch, tier_calls, tier_outs, all_results, search_ret>>

NextSearch ==
    \/ SearchBegin
    \/ SearchTierReturns
    \/ TakeBestMatch

\* One call of search_optimized, nothing else running.
InitSearch == InitWith(0, BatchOptions)

SpecSearch == InitSearch /\ [][NextSearch]_vars

----------------------------------------------------------------------------
\* AudioConverter::needs_conversion on its own.

\* Extensions an input path may carry; <<>> is a path without one.
ExtSamples ==
    {<<>>, <<"m", "p", "3">>, <<"M", "P", "3">>, <<"M", "p", "3">>,
     <<"w", "a", "v">>, <<"W", "A", "V">>, <<"f", "l", "a", "c">>,
     <<"m", "4", "a">>, <<"M", "4", "A">>, <<"o", "g", "g">>}

\* The call is made with any path, existing or not, format and bitrate.
InitConversion ==
    /\ PipelineInit(0, BatchOptions, DistinctSongs)
    /\ TagsIdle
    /\ GuiIdle
    /\ FetchesIdle
    /\ LyricsIdle
    /\ YtdlpIdle
    /\ EnrichIdle
    /\ SearchIdle
    /\ TitleIdle
    /\ LrcIdle
    /\ SanitizeIdle
    /\ conversion_args \in [exists : BOOLEAN, ext : ExtSamples, format : Formats,
                            bitrate : Bitrates]
    /\ conversion_needed = {}

\* needs_conversion returns.
NeedsConversionReturns ==
    /\ conversion_needed = {}
    /\ conversion_needed' =
         {needs_conversion(conversion_args.exists,
                           [dir |-> "tracks", stem |-> 1, ext |-> conversion_args.ext],
                           conversion_args.format, conversion_args.bitrate)}
    /\ UNCHANGED <<outsideConversion, conversion_args>>

NextConversion == NeedsConversionReturns

SpecConversion == InitConversion /\ [][NextConversion]_vars

----------------------------------------------------------------------------
\* YoutubeDownloader::is_track on its own.

MaxWords == 5

\* Words a title is made of: names, the dash that separates artist from
\* title, a keyword of the list, a word that only contains one ("ep" in
\* "Deep"), and a running time.
WordSamples ==
    {<<"A", "r", "t", "i", "s", "t">>, <<"-">>, <<"S", "o", "n", "g">>,
     <<"A", "l", "b", "u", "m">>, <<"D", "e", "e", "p">>,
     <<"1", ":", "2", "3", ":", "4", "5">>}

\* The title as one string: its words with one space between them.
RECURSIVE join_words(_)
join_words(words) ==
    IF words = <<>> THEN <<>>
    ELSE IF Len(words) = 1 THEN words[1]
    ELSE words[1] \o <<" ">> \o join_words(Tail(words))

\* The call is made with any title of up to MaxWords words.
InitTitle ==
    /\ PipelineInit(0, BatchOptions, DistinctSongs)
    /\ TagsIdle
    /\ GuiIdle
    /\ FetchesIdle
    /\ LyricsIdle
    /\ YtdlpIdle
    /\ EnrichIdle
    /\ SearchIdle
    /\ ConversionIdle
    /\ LrcIdle
    /\ SanitizeIdle
    /\ title_words \in UNION {[1..n -> WordSamples] : n \in 1..MaxWords}
    /\ title_ret = {}

\* is_track returns.
IsTrackReturns ==
    /\ title_ret = {}
    /\ title_ret' = {is_track(join_words(title_words))}
    /\ UNCHANGED <<outsideTitle, title_words>>

NextTitle == IsTrackReturns

SpecTitle == InitTitle /\ [][NextTitle]_vars

----------------------------------------------------------------------------
\* LRC: convert_to_lrc (downloader/metadata.rs, lyrics/lyrics.rs) and
\* parse_lrc_content, parse_timestamp (lyrics/lyrics.rs).

MaxLines == 2

DigitChars == <<"0", "1", "2", "3", "4", "5", "6", "7", "8", "9">>

\* Display of an unsigned integer: its decimal digits.
RECURSIVE to_decimal(_)
to_decimal(n) ==
    IF n < 10 THEN <<DigitChars[n + 1]>>
    ELSE to_decimal(n \div 10) \o <<DigitChars[(n % 10) + 1]>>

\* format!("{:02}", n): at least two digits, padded with a zero.
pad2(n) == IF n < 10 THEN <<"0">> \o to_decimal(n) ELSE to_decimal(n)

\* Display of an i32.
to_decimal_signed(n) == IF n < 0 THEN <<"-">> \o to_decimal(0 - n) ELSE to_decimal(n)

\* format!("[{:02}:{:02}.{:02}]{}\n", minutes, seconds, milliseconds / 10, text)
lrc_line(line) ==
    LET minutes == line.timestamp \div 60000
        seconds == (line.timestamp % 60000) \div 1000
        milliseconds == line.timestamp % 1000
    IN  <<"[">> \o pad2(minutes) \o <<":">> \o pad2(seconds) \o <<".">>
            \o pad2(milliseconds \div 10) \o <<"]">> \o line.text \o <<"\n">>

RECURSIVE lrc_lines(_)
lrc_lines(lines) ==
    IF lines = <<>> THEN <<>> ELSE lrc_line(Head(lines)) \o lrc_lines(Tail(lines))

convert_to_lrc(lyrics) ==
    (IF lyrics.offset # 0
     THEN <<"[", "o", "f", "f", "s", "e", "t", ":">> \o to_decimal_signed(lyrics.offset)
              \o <<"]", "\n">>
     ELSE <<>>)
    \o lrc_lines(lyrics.lines)

\* str::split(char): the pieces between the separators, n + 1 pieces for n
\* separators.
RECURSIVE split(_, _)
split(str, sep) ==
    IF \A i \in 1..Len(str) : str[i] # sep THEN <<str>>
    ELSE LET at == CHOOSE i \in 1..Len(str) :
                       str[i] = sep /\ \A j \in 1..(i - 1) : str[j] # sep
         IN  <<SubSeq(str, 1, at - 1)>> \o split(SubSeq(str, at + 1, Len(str)), sep)

\* str::lines(): split at "\n", a final empty piece is dropped, and one
\* "\r" before the "\n" belongs to the line ending.
content_lines(content) ==
    LET pieces == split(content, "\n")
        kept == IF pieces[Len(pieces)] = <<>>
                THEN SubSeq(pieces, 1, Len(pieces) - 1) ELSE pieces
        strip(l) == IF l # <<>> /\ l[Len(l)] = "\r" THEN SubSeq(l, 1, Len(l) - 1) ELSE l
    IN  [i \in 1..Len(kept) |-> strip(kept[i])]

Whitespace == {" ", "\t", "\r", "\n"}

\* str::trim()
RECURSIVE trim(_)
trim(str) ==
    IF str = <<>> THEN str
    ELSE IF str[1] \in Whitespace THEN trim(Tail(str))
    ELSE IF str[Len(str)] \in Whitespace THEN trim(SubSeq(str, 1, Len(str) - 1))
    ELSE str

DigitValue(c) == CHOOSE d \in 0..9 : DigitChars[d + 1] = c

RECURSIVE digits_value(_)
digits_value(str) ==
    IF str = <<>> THEN 0
    ELSE 10 * digits_value(SubSeq(str, 1, Len(str) - 1)) + DigitValue(str[Len(str)])

\* str::parse::<u32>().ok(): an optional "+", then one digit or more; {} is
\* None. A value of 2^32 or more is None as well: the strings parsed here
\* have seven digits at most, so that case does not arise.
parse_u32(str) ==
    LET body == IF str # <<>> /\ str[1] = "+" THEN Tail(str) ELSE str
    IN  IF body = <<>> \/ \E i \in 1..Len(body) : body[i] \notin Digits THEN {}
        ELSE {digits_value(body)}

\* A parse_timestamp that takes the fraction for milliseconds.
parse_timestamp_millis(timestamp_str) ==
    LET parts == split(timestamp_str, ":")
    IN  IF Len(parts) # 2 THEN {}
        ELSE LET minutes == parse_u32(parts[1])
                 seconds_parts == split(parts[2], ".")
                 seconds == parse_u32(seconds_parts[1])
                 centiseconds == parse_u32(IF Len(seconds_parts) >= 2
                                           THEN seconds_parts[2] ELSE <<"0">>)
             IN  {m * 60000 + sec * 1000 + c :
                     m \in minutes, sec \in seconds, c \in centiseconds}

\* lyrics.rs 613-625; {} is None. The sum is u32 arithmetic: for what
\* convert_to_lrc wrote from a u32 timestamp it is at most that timestamp.
parse_timestamp(timestamp_str) ==
    LET parts == split(timestamp_str, ":")
    IN  IF Len(parts) # 2 THEN {}
        ELSE LET minutes == parse_u32(parts[1])
                 seconds_parts == split(parts[2], ".")
                 seconds == parse_u32(seconds_parts[1])
                 centiseconds == parse_u32(IF Len(seconds_parts) >= 2
                                           THEN seconds_parts[2] ELSE <<"0">>)
             IN  {m * 60000 + sec * 1000 + c * 10 :
                     m \in minutes, sec \in seconds, c \in centiseconds}

\* lyrics.rs 585-603: what one line of the content adds to the list. A
\* line that starts with "]" makes the slice [1..0], which panics.
parse_lrc_line(raw) ==
    LET line == trim(raw)
    IN  IF line = <<>> \/ \A i \in 1..Len(line) : line[i] # "]"
        THEN [panic |-> FALSE, lines |-> <<>>]
        ELSE LET at == CHOOSE i \in 1..Len(line) :
                           line[i] = "]" /\ \A j \in 1..(i - 1) : line[j] # "]"
                 timestamp == parse_timestamp(SubSeq(line, 2, at - 1))
                 text == SubSeq(line, at + 1, Len(line))
             IN  IF at = 1 THEN [panic |-> TRUE, lines |-> <<>>]
                 ELSE IF timestamp = {} THEN [panic |-> FALSE, lines |-> <<>>]
                 ELSE [panic |-> FALSE,
                       lines |-> <<[timestamp |-> CHOOSE ts \in timestamp : TRUE,
                                    text |-> text]>>]

RECURSIVE parse_lrc_lines(_)
parse_lrc_lines(raws) ==
    IF raws = <<>> THEN [panic |-> FALSE, lines |-> <<>>]
    ELSE LET first == parse_lrc_line(Head(raws))
             rest == parse_lrc_lines(Tail(raws))
         IN  IF first.panic THEN first
             ELSE [panic |-> rest.panic, lines |-> first.lines \o rest.lines]

\* lyrics.rs 582-610: Err when no line was accepted.
parse_lrc_content(content) ==
    LET parsed == parse_lrc_lines(content_lines(content))
    IN  IF parsed.panic THEN [ok |-> FALSE, panic |-> TRUE, lines |-> <<>>]
        ELSE IF parsed.lines = <<>> THEN [ok |-> FALSE, panic |-> FALSE, lines |-> <<>>]
        ELSE [ok |-> TRUE, panic |-> FALSE, lines |-> parsed.lines]

\* Timestamps in milliseconds: 0, below one centisecond, a whole minute and
\* second, one with all three fields and a remainder, and 100 minutes.
TimestampSamples == {0, 5, 61000, 61234, 6000999}

\* Texts of a line: plain, with brackets and a colon, ending in a space,
\* empty.
TextSamples == {<<"a">>, <<"b">>, <<"[", "c", ":", "]">>, <<"a", " ">>, <<>>}

OffsetSamples == {0, 500}

LineSamples == [timestamp : TimestampSamples, text : TextSamples]

InitLrc ==
    /\ PipelineInit(0, BatchOptions, DistinctSongs)
    /\ TagsIdle
    /\ GuiIdle
    /\ FetchesIdle
    /\ LyricsIdle
    /\ YtdlpIdle
    /\ EnrichIdle
    /\ SearchIdle
    /\ ConversionIdle
    /\ TitleIdle
    /\ SanitizeIdle
    /\ lrc_lyrics \in [lines : UNION {[1..n -> LineSamples] : n \in 0..MaxLines},
                       offset : OffsetSamples]
    /\ lrc_pc = "called"
    /\ lrc_content = <<>>
    /\ lrc_parsed = [ok |-> FALSE, panic |-> FALSE, lines |-> <<>>]

\* convert_to_lrc returns the string.
ConvertToLrc ==
    /\ lrc_pc = "called"
    /\ lrc_pc' = "serialized"
    /\ lrc_content' = convert_to_lrc(lrc_lyrics)
    /\ UNCHANGED <<outsideLrc, lrc_lyrics, lrc_parsed>>

\* parse_lrc_content is applied to that string.
ParseLrcContent ==
    /\ lrc_pc = "serialized"
    /\ lrc_pc' = "parsed"
    /\ lrc_parsed' = parse_lrc_content(lrc_content)
    /\ UNCHANGED <<outsideLrc, lrc_lyrics, lrc_content>>

NextLrc ==
    \/ ConvertToLrc
    \/ ParseLrcContent

SpecLrc == InitLrc /\ [][NextLrc]_vars

----------------------------------------------------------------------------
\* sanitize_filename: the copies of downloader/audio.rs, downloader/covers.rs
\* and lyrics/lyrics.rs.

MaxChars == 3

\* audio.rs 569-573 and covers.rs 462-466: the match on one character.
sanitize_char(c) ==
    IF c \in {"<", ">", ":", "\"", "/", "\\", "|", "?", "*"} THEN "_"
    ELSE IF c = ";" THEN ","
    ELSE c

\* lyrics.rs 1123-1127: the match on one character; ':' is not in the list.
lyrics_sanitize_char(c) ==
    IF c \in {"<", ">", "\"", "/", "\\", "|", "?", "*"} THEN "_"
    ELSE IF c = ";" THEN ","
    ELSE c

\* audio.rs 565-577
audio_sanitize_filename(filename) ==
    trim([i \in 1..Len(filename) |-> sanitize_char(filename[i])])

\* covers.rs 458-470
covers_sanitize_filename(filename) ==
    trim([i \in 1..Len(filename) |-> sanitize_char(filename[i])])

\* lyrics.rs 1119-1131
lyrics_sanitize_filename(filename) ==
    trim([i \in 1..Len(filename) |-> lyrics_sanitize_char(filename[i])])

SanitizeCopies == {"audio", "covers", "lyrics"}

sanitize_filename(copy, filename) ==
    CASE copy = "audio" -> audio_sanitize_filename(filename)
      [] copy = "covers" -> covers_sanitize_filename(filename)
      [] copy = "lyrics" -> lyrics_sanitize_filename(filename)

\* Characters of a name: the ten the functions are about, a letter, a space.
CharSamples ==
    {"<", ">", ":", "\"", "/", "\\", "|", "?", "*", ";", "a", " "}

\* One of the copies is called with any name of up to MaxChars characters.
InitSanitize ==
    /\ PipelineInit(0, BatchOptions, DistinctSongs)
    /\ TagsIdle
    /\ GuiIdle
    /\ FetchesIdle
    /\ LyricsIdle
    /\ YtdlpIdle
    /\ EnrichIdle
    /\ SearchIdle
    /\ ConversionIdle
    /\ TitleIdle
    /\ LrcIdle
    /\ sanitize_args \in [copy : SanitizeCopies,
                          filename : UNION {[1..n -> CharSamples] : n \in 1..MaxChars}]
    /\ sanitize_ret = {}

\* sanitize_filename returns.
SanitizeReturns ==
    /\ sanitize_ret = {}
    /\ sanitize_ret' = {sanitize_filename(sanitize_args.copy, sanitize_args.filename)}
    /\ UNCHANGED <<outsideSanitize, sanitize_args>>

NextSanitize == SanitizeReturns

SpecSanitize == InitSanitize /\ [][NextSanitize]_vars

----------------------------------------------------------------------------
\* The enrichment stage of download_track on its own (audio.rs 164-240).

InitEnrich ==
    /\ PipelineInit(0, BatchOptions, DistinctSongs)
    /\ TagsIdle
    /\ GuiIdle
    /\ FetchesIdle
    /\ LyricsIdle
    /\ YtdlpIdle
    /\ SearchIdle
    /\ ConversionIdle
    /\ TitleIdle
    /\ LrcIdle
    /\ SanitizeIdle
    /\ enrich_opts \in AllOptions
    /\ enrich_pc = "called"
    /\ cover_future = "none"
    /\ lyrics_future = "none"
    /\ cover_result = None
    /\ lyrics_result = None

\* audio.rs 164-200: without cover and lyrics the stage is skipped with
\* (None, None); otherwise the futures asked for are created, not yet
\* polled, and join! is entered.
EnrichBegin ==
    /\ enrich_pc = "called"
    /\ IF enrich_opts.download_cover \/ enrich_opts.download_lyrics
       THEN /\ enrich_pc' = "joining"
            /\ cover_future' = IF enrich_opts.download_cover THEN "created" ELSE "none"
            /\ lyrics_future' = IF enrich_opts.download_lyrics THEN "created" ELSE "none"
       ELSE /\ enrich_pc' = "embedding"
            /\ UNCHANGED <<cover_future, lyrics_future>>
    /\ UNCHANGED <<outsideEnrich, enrich_opts, cover_result, lyrics_result>>

\* A join! that runs its branches one after the other: the lyrics fetch is
\* started once the cover branch is done.
JoinPollsInTurn ==
    /\ enrich_pc = "joining"
    /\ "created" \in {cover_future, lyrics_future}
    /\ IF cover_future = "created"
       THEN cover_future' = "pending" /\ UNCHANGED lyrics_future
       ELSE /\ cover_future \in {"none", "ready"}
            /\ lyrics_future' = "pending"
            /\ UNCHANGED cover_future
    /\ UNCHANGED <<outsideEnrich, enrich_opts, enrich_pc, cover_result, lyrics_result>>

\* audio.rs 202: the first poll of tokio::join! polls every branch; each
\* fetch runs up to its first network await and is then under way.
JoinPolls ==
    /\ enrich_pc = "joining"
    /\ "created" \in {cover_future, lyrics_future}
    /\ cover_future' = IF cover_future = "created" THEN "pending" ELSE cover_future
    /\ lyrics_future' = IF lyrics_future = "created" THEN "pending" ELSE lyrics_future
    /\ UNCHANGED <<outsideEnrich, enrich_opts, enrich_pc, cover_result, lyrics_result>>

\* audio.rs 203-218: the cover fetch completes; Ok is Some(data), Err is None.
CoverResolves ==
    /\ enrich_pc = "joining"
    /\ cover_future = "pending"
    /\ cover_future' = "ready"
    /\ cover_result' \in CoverOutcomes(enrich_opts)
    /\ UNCHANGED <<outsideEnrich, enrich_opts, enrich_pc, lyrics_future, lyrics_result>>

\* audio.rs 219-234: the lyrics fetch completes.
LyricsResolves ==
    /\ enrich_pc = "joining"
    /\ lyrics_future = "pending"
    /\ lyrics_future' = "ready"
    /\ lyrics_result' \in LyricsOutcomes(enrich_opts)
    /\ UNCHANGED <<outsideEnrich, enrich_opts, enrich_pc, cover_future, cover_result>>

\* audio.rs 202-243: join! returns when every branch has completed, and the
\* embedding stage begins with (cover_art_data, lyrics_data).
JoinReturns ==
    /\ enrich_pc = "joining"
    /\ cover_future \in {"none", "ready"}
    /\ lyrics_future \in {"none", "ready"}
    /\ enrich_pc' = "embedding"
    /\ UNCHANGED <<outsideEnrich, enrich_opts, cover_future, lyrics_future,
                   cover_result, lyrics_result>>

NextEnrich ==
    \/ EnrichBegin
    \/ JoinPolls
    \/ CoverResolves
    \/ LyricsResolves
    \/ JoinReturns

SpecEnrich == InitEnrich /\ [][NextEnrich]_vars

----------------------------------------------------------------------------
\* YoutubeDownloader::download_with_yt_dlp on its own, with
\* rename_downloaded_file and cleanup_temp_files.

\* Files yt-dlp may leave in the temp directory.
TempFileSamples ==
    {<<"a", ".", "p", "a", "r", "t">>, <<"a", ".", "y", "t", "d", "l">>,
     <<"a", ".", "t", "x", "t">>}

\* youtube.rs 408: the names cleanup_temp_files removes.
is_temp_file(file_name) ==
    \/ contains(file_name, <<"t", "e", "m", "p">>)
    \/ contains(file_name, <<".", "p", "a", "r", "t">>)
    \/ contains(file_name, <<".", "y", "t", "d", "l">>)

DlOk == [ok |-> TRUE, error |-> None]
DlErr(e) == [ok |-> FALSE, error |-> e]

InitYtdlp ==
    /\ PipelineInit(0, BatchOptions, DistinctSongs)
    /\ TagsIdle
    /\ GuiIdle
    /\ FetchesIdle
    /\ LyricsIdle
    /\ SearchIdle
    /\ ConversionIdle
    /\ TitleIdle
    /\ LrcIdle
    /\ SanitizeIdle
    /\ EnrichIdle
    /\ dl_pc = "called"
    /\ dl_callback \in BOOLEAN
    /\ temp_created = FALSE
    /\ child_status = "none"
    /\ output_file = "none"
    /\ temp_files = {}
    /\ cleanup_attempted = FALSE
    /\ cleanup_log = {}
    /\ dl_progress = <<>>
    /\ dl_ret = [ok |-> FALSE, error |-> None]

\* youtube.rs 257-275: the output directory, then the temp directory, is
\* created; either failure is returned.
CreateDirs ==
    /\ dl_pc = "called"
    /\ \E parent_ok \in BOOLEAN, temp_ok \in BOOLEAN :
        IF ~parent_ok
        THEN /\ dl_pc' = "returned"
             /\ dl_ret' = DlErr("Failed to create output directory")
             /\ UNCHANGED temp_created
        ELSE IF ~temp_ok
        THEN /\ dl_pc' = "returned"
             /\ dl_ret' = DlErr("Failed to create temp directory")
             /\ UNCHANGED temp_created
        ELSE /\ dl_pc' = "spawn"
             /\ temp_created' = TRUE
             /\ UNCHANGED dl_ret
    /\ UNCHANGED <<outsideYtdlp, dl_callback, child_status, output_file, temp_files,
                   cleanup_attempted, cleanup_log, dl_progress>>

\* youtube.rs 317-328: the child is spawned; a failure is returned with ?.
\* With a callback, 1.0 is reported at once.
SpawnChild ==
    /\ dl_pc = "spawn"
    /\ \E spawn_ok \in BOOLEAN :
        IF spawn_ok
        THEN /\ dl_pc' = "waiting"
             /\ dl_progress' = IF dl_callback THEN Append(dl_progress, 100) ELSE dl_progress
             /\ UNCHANGED <<child_status, dl_ret>>
        ELSE /\ dl_pc' = "returned"
             /\ child_status' = "spawn_err"
             /\ dl_ret' = DlErr("Failed to spawn yt-dlp")
             /\ UNCHANGED dl_progress
    /\ UNCHANGED <<outsideYtdlp, dl_callback, temp_created, output_file, temp_files,
                   cleanup_attempted, cleanup_log>>

\* youtube.rs 331-336: child.wait() returns. The child has left any files
\* in the temp directory and may have written its output file. A wait
\* error and a non-zero status are returned.
ChildExits ==
    /\ dl_pc = "waiting"
    /\ \E status \in {"wait_err", "nonzero", "zero"}, left \in SUBSET TempFileSamples,
          written \in BOOLEAN :
        /\ child_status' = status
        /\ temp_files' = left
        /\ output_file' = IF written THEN "downloaded" ELSE "none"
        /\ IF status = "zero"
           THEN dl_pc' = "rename" /\ UNCHANGED dl_ret
           ELSE /\ dl_pc' = "returned"
                /\ dl_ret' = DlErr(IF status = "wait_err" THEN "Failed to wait for yt-dlp"
                                    ELSE "yt-dlp failed with status")
    /\ UNCHANGED <<outsideYtdlp, dl_callback, temp_created, cleanup_attempted,
                   cleanup_log, dl_progress>>

\* rename_downloaded_file (youtube.rs 369-399) as called at 339: when
\* read_dir fails the whole body is skipped and Ok(()) is returned; no
\* matching entry is Err("Downloaded file not found"); a failed rename is
\* Err.
RenameDownloadedFile ==
    /\ dl_pc = "rename"
    /\ \E listed \in BOOLEAN, rename_ok \in BOOLEAN :
        IF ~listed
        THEN dl_pc' = "cleanup" /\ UNCHANGED <<output_file, dl_ret>>
        ELSE IF output_file = "none"
        THEN /\ dl_pc' = "returned"
             /\ dl_ret' = DlErr("Downloaded file not found")
             /\ UNCHANGED output_file
        ELSE IF rename_ok
        THEN dl_pc' = "cleanup" /\ output_file' = "expected" /\ UNCHANGED dl_ret
        ELSE /\ dl_pc' = "returned"
             /\ dl_ret' = DlErr("Failed to rename downloaded file")
             /\ UNCHANGED output_file
    /\ UNCHANGED <<outsideYtdlp, dl_callback, temp_created, child_status, temp_files,
                   cleanup_attempted, cleanup_log, dl_progress>>

\* cleanup_temp_files (youtube.rs 401-421) as called at 342 with ?: when
\* read_dir fails nothing is done; an error of next_entry is returned, after
\* some of the files were handled; a removal that fails is logged.
CleanupTempFiles ==
    /\ dl_pc = "cleanup"
    /\ cleanup_attempted' = TRUE
    /\ dl_pc' = "returned"
    /\ \E listing \in {"read_dir_err", "entry_err", "ok"},
          seen \in SUBSET temp_files, failed \in SUBSET temp_files :
        LET visited == CASE listing = "read_dir_err" -> {}
                         [] listing = "entry_err" -> seen
                         [] listing = "ok" -> temp_files
            matching == {f \in visited : is_temp_file(f)}
        IN  /\ listing # "entry_err" => seen = {}
            /\ failed \subseteq matching
            /\ temp_files' = temp_files \ (matching \ failed)
            /\ cleanup_log' = failed
            /\ dl_ret' = IF listing = "entry_err" THEN DlErr("Io") ELSE DlOk
    /\ UNCHANGED <<outsideYtdlp, dl_callback, temp_created, child_status, output_file,
                   dl_progress>>

NextYtdlp ==
    \/ CreateDirs
    \/ SpawnChild
    \/ ChildExits
    \/ RenameDownloadedFile
    \/ CleanupTempFiles

SpecYtdlp == InitYtdlp /\ [][NextYtdlp]_vars

----------------------------------------------------------------------------
\* The lyrics lookup on its own: download_lyrics_for_embedding and
\* download_lyrics with download_synced_lyrics and download_unsynced_lyrics.

\* lyrics.rs 855-872: the three query variants, always distinct.
generate_search_queries == <<"artist title", "artist - title", "quoted">>

\* lyrics.rs 196-212: the providers download_synced_lyrics tries, in order.
synced_providers == <<"LRClib", "Lyrics.ovh">>

\* lyrics.rs 225-254: the providers download_unsynced_lyrics tries for each
\* query, in order.
unsynced_providers == <<"LRClib", "Lyrics.ovh", "Musixmatch", "AZLyrics", "Genius">>

\* Every provider call of one lookup in which no provider answers: the
\* synced providers, then for each query each unsynced provider.
lyrics_chain ==
    [i \in 1..Len(synced_providers) |->
        [kind |-> "synced", provider |-> synced_providers[i], query |-> "artist title"]]
    \o [i \in 1..(Len(generate_search_queries) * Len(unsynced_providers)) |->
        [kind |-> "unsynced",
         provider |-> unsynced_providers[((i - 1) % Len(unsynced_providers)) + 1],
         query |-> generate_search_queries[((i - 1) \div Len(unsynced_providers)) + 1]]]

InitLyrics ==
    /\ PipelineInit(0, BatchOptions, DistinctSongs)
    /\ TagsIdle
    /\ GuiIdle
    /\ FetchesIdle
    /\ SearchIdle
    /\ ConversionIdle
    /\ TitleIdle
    /\ LrcIdle
    /\ SanitizeIdle
    /\ EnrichIdle
    /\ YtdlpIdle
    /\ lyr_entry \in {"embedding", "files"}
    /\ lyr_pc = "called"
    /\ lyr_calls = <<>>
    /\ lyr_outs = <<>>
    /\ lyr_result = EmptyLyrics
    /\ lyr_ret = [ok |-> TRUE]

\* lyrics.rs 135-143, 200: the result starts empty and the first synced
\* provider is asked.
LyricsBegin ==
    /\ lyr_pc = "called"
    /\ lyr_pc' = "awaiting"
    /\ lyr_calls' = <<lyrics_chain[1]>>
    /\ UNCHANGED <<outsideLyrics, lyr_entry, lyr_outs, lyr_result, lyr_ret>>

\* A lookup that goes on to the unsynced providers after synced lyrics
\* were found.
ProviderReturnsAndGoesOn ==
    /\ lyr_pc = "awaiting"
    /\ \E found \in BOOLEAN :
        LET call == lyr_calls[Len(lyr_calls)]
            got == IF call.kind = "synced"
                   THEN [lyr_result EXCEPT !.synced = call.provider]
                   ELSE [lyr_result EXCEPT !.unsynced = call.provider]
        IN  /\ lyr_outs' = Append(lyr_outs, found)
            /\ IF found /\ lyrics_chain[Len(lyr_calls)].kind = "unsynced"
               THEN /\ lyr_result' = got
                    /\ UNCHANGED lyr_calls
                    /\ IF lyr_entry = "files"
                       THEN lyr_pc' = "saving" /\ UNCHANGED lyr_ret
                       ELSE lyr_pc' = "returned" /\ lyr_ret' = [ok |-> TRUE]
               ELSE /\ lyr_result' = IF found THEN got ELSE lyr_result
                    /\ IF Len(lyr_calls) < Len(lyrics_chain)
                       THEN /\ lyr_calls' = Append(lyr_calls, lyrics_chain[Len(lyr_calls) + 1])
                            /\ UNCHANGED <<lyr_pc, lyr_ret>>
                       ELSE /\ lyr_pc' = "returned"
                            /\ lyr_ret' = [ok |-> TRUE]
                            /\ UNCHANGED lyr_calls
    /\ UNCHANGED <<outsideLyrics, lyr_entry>>

\* lyrics.rs 143-155, 196-261: the provider asked returns. Ok ends the
\* lookup with its lyrics in the result; Err moves on to the next provider
\* of the chain, from the last synced provider to the first unsynced one,
\* and after the last provider the result is returned as it is.
ProviderReturns ==
    /\ lyr_pc = "awaiting"
    /\ \E found \in BOOLEAN :
        LET call == lyr_calls[Len(lyr_calls)]
            got == IF call.kind = "synced"
                   THEN [lyr_result EXCEPT !.synced = call.provider]
                   ELSE [lyr_result EXCEPT !.unsynced = call.provider]
        IN  /\ lyr_outs' = Append(lyr_outs, found)
            /\ IF found /\ TRUE
               THEN /\ lyr_result' = got
                    /\ UNCHANGED lyr_calls
                    /\ IF lyr_entry = "files"
                       THEN lyr_pc' = "saving" /\ UNCHANGED lyr_ret
                       ELSE lyr_pc' = "returned" /\ lyr_ret' = [ok |-> TRUE]
               ELSE /\ lyr_result' = IF found THEN got ELSE lyr_result
                    /\ IF Len(lyr_calls) < Len(lyrics_chain)
                       THEN /\ lyr_calls' = Append(lyr_calls, lyrics_chain[Len(lyr_calls) + 1])
                            /\ UNCHANGED <<lyr_pc, lyr_ret>>
                       ELSE /\ lyr_pc' = "returned"
                            /\ lyr_ret' = [ok |-> TRUE]
                            /\ UNCHANGED lyr_calls
    /\ UNCHANGED <<outsideLyrics, lyr_entry>>

\* lyrics.rs 177, 185: download_lyrics writes the lyrics found to a file; a
\* failure is returned with ?.
SaveReturns ==
    /\ lyr_pc = "saving"
    /\ lyr_pc' = "returned"
    /\ \E saved \in BOOLEAN :
        IF saved
        THEN /\ lyr_result' = IF lyr_result.synced # None
                              THEN [lyr_result EXCEPT !.synced_path = TRUE]
                              ELSE [lyr_result EXCEPT !.unsynced_path = TRUE]
             /\ lyr_ret' = [ok |-> TRUE]
        ELSE /\ lyr_ret' = [ok |-> FALSE]
             /\ UNCHANGED lyr_result
    /\ UNCHANGED <<outsideLyrics, lyr_entry, lyr_calls, lyr_outs>>

NextLyrics ==
    \/ LyricsBegin
    \/ ProviderReturns
    \/ SaveReturns

SpecLyrics == InitLyrics /\ [][NextLyrics]_vars

----------------------------------------------------------------------------
\* Concurrent fetches of one batch: every output path of a batch lies in
\* <output_dir>/tracks (audio.rs 378-381), so every fetch lists the same
\* directory in rename_downloaded_file and uses the same temp directory
\* (youtube.rs 272-273).

\* Fetches running at once (the default max_concurrent_downloads is 3).
NumFetches == 2
Fetches == 1..NumFetches

\* File stems of the tracks of a batch.
StemSamples == {<<"a">>, <<"a", "b">>, <<"c">>}

\* str::starts_with and str::ends_with
starts_with(str, pat) == Len(pat) <= Len(str) /\ SubSeq(str, 1, Len(pat)) = pat
ends_with(str, pat) ==
    Len(pat) <= Len(str) /\ SubSeq(str, Len(str) - Len(pat) + 1, Len(str)) = pat

\* youtube.rs 383: the entries rename_downloaded_file accepts.
is_downloaded_file(file_name, stem, format) ==
    starts_with(file_name, stem) /\ ends_with(file_name, <<".">> \o format)

\* The file yt-dlp leaves in the output directory for --output <dir>/<stem>,
\* and the part file it keeps in the temp directory meanwhile.
product_name(stem, format) == stem \o <<".">> \o format
part_name(stem) == stem \o <<".", "p", "a", "r", "t">>

\* A directory after a file was written under a name: a file of that name is
\* replaced.
with_file(dir, file) == {f \in dir : f.name # file.name} \cup {file}

InitFetches ==
    /\ PipelineInit(0, BatchOptions, DistinctSongs)
    /\ TagsIdle
    /\ GuiIdle
    /\ SearchIdle
    /\ ConversionIdle
    /\ TitleIdle
    /\ LrcIdle
    /\ SanitizeIdle
    /\ EnrichIdle
    /\ YtdlpIdle
    /\ LyricsIdle
    /\ base_name \in {b \in [Fetches -> StemSamples] :
                         \A i, j \in Fetches : i # j => b[i] # b[j]}
    /\ fetch_pc = [t \in Fetches |-> "called"]
    /\ output_dir = {}
    /\ temp_dir = {}
    /\ renamed = [t \in Fetches |-> {}]
    /\ removed = [t \in Fetches |-> {}]

\* youtube.rs 257-328: the directories are created and the child is spawned.
FetchSpawns(t) ==
    /\ fetch_pc[t] = "called"
    /\ fetch_pc' = [fetch_pc EXCEPT ![t] = "waiting"]
    /\ UNCHANGED <<outsideFetches, base_name, output_dir, temp_dir, renamed, removed>>

\* The running child writes its part file into the temp directory
\* (--paths temp:<temp_dir>, youtube.rs 284).
ChildWritesPart(t) ==
    /\ fetch_pc[t] = "waiting"
    /\ \A f \in temp_dir : f.by # t
    /\ temp_dir' = with_file(temp_dir, [name |-> part_name(base_name[t]), by |-> t])
    /\ UNCHANGED <<outsideFetches, fetch_pc, base_name, output_dir, renamed, removed>>

\* youtube.rs 331-336: child.wait() returns. With status zero the child has
\* moved its file to the output directory; otherwise its part file stays.
FetchChildExits(t) ==
    /\ fetch_pc[t] = "waiting"
    /\ \E zero \in BOOLEAN :
        IF zero
        THEN /\ fetch_pc' = [fetch_pc EXCEPT ![t] = "rename"]
             /\ temp_dir' = {f \in temp_dir : f.by # t}
             /\ output_dir' = with_file(output_dir,
                    [name |-> product_name(base_name[t], extension_of(options.format)),
                     by |-> t])
        ELSE /\ fetch_pc' = [fetch_pc EXCEPT ![t] = "returned"]
             /\ UNCHANGED <<temp_dir, output_dir>>
    /\ UNCHANGED <<outsideFetches, base_name, renamed, removed>>

\* rename_downloaded_file (youtube.rs 369-399): the first entry of
\* read_dir(output_dir) whose name starts with base_name and ends with
\* .<format> is renamed to expected_path. read_dir yields the entries in no
\* particular order: the first match is any match.
FetchRenames(t) ==
    /\ fetch_pc[t] = "rename"
    /\ LET format == extension_of(options.format)
           matches == {f \in output_dir : is_downloaded_file(f.name, base_name[t], format)}
           expected_path == product_name(base_name[t], format)
       IN  IF matches = {}
           THEN /\ fetch_pc' = [fetch_pc EXCEPT ![t] = "returned"]
                /\ UNCHANGED <<output_dir, renamed>>
           ELSE \E found_file \in matches :
                   /\ output_dir' = with_file(output_dir \ {found_file},
                                              [found_file EXCEPT !.name = expected_path])
                   /\ renamed' = [renamed EXCEPT ![t] = {found_file}]
                   /\ fetch_pc' = [fetch_pc EXCEPT ![t] = "cleanup"]
    /\ UNCHANGED <<outsideFetches, base_name, temp_dir, removed>>

\* cleanup_temp_files (youtube.rs 401-421): every file of the temp directory
\* whose name contains "temp", ".part" or ".ytdl" is removed.
FetchCleansUp(t) ==
    /\ fetch_pc[t] = "cleanup"
    /\ LET matching == {f \in temp_dir : is_temp_file(f.name)}
       IN  /\ temp_dir' = temp_dir \ matching
           /\ removed' = [removed EXCEPT
                            ![t] = {[file |-> f, running |-> fetch_pc[f.by] = "waiting"] :
                                       f \in matching}]
    /\ fetch_pc' = [fetch_pc EXCEPT ![t] = "returned"]
    /\ UNCHANGED <<outsideFetches, base_name, output_dir, renamed>>

NextFetches ==
    \/ \E t \in Fetches : FetchSpawns(t)
    \/ \E t \in Fetches : ChildWritesPart(t)
    \/ \E t \in Fetches : FetchChildExits(t)
    \/ \E t \in Fetches : FetchRenames(t)
    \/ \E t \in Fetches : FetchCleansUp(t)

SpecFetches == InitFetches /\ [][NextFetches]_vars

----------------------------------------------------------------------------
\* The download buttons of the GUI: Message::StartDownload, StopDownload,
\* PauseDownload, RetryTrack, DownloadTrack and DownloadSelectedTracks
\* (ui/iced.rs), and the messages that report the end of a run.

\* Most runs of one kind the model lets be in flight at once.
MaxRuns == 2

InitGui ==
    /\ PipelineInit(0, BatchOptions, DistinctSongs)
    /\ TagsIdle
    /\ SearchIdle
    /\ ConversionIdle
    /\ TitleIdle
    /\ LrcIdle
    /\ SanitizeIdle
    /\ EnrichIdle
    /\ YtdlpIdle
    /\ LyricsIdle
    /\ FetchesIdle
    /\ track_status = [i \in Tracks |-> "Pending"]
    /\ selected_tracks \in SUBSET Tracks
    /\ single_runs = [i \in Tracks |-> 0]
    /\ batches = <<>>

\* iced.rs 782-877: the Pending tracks are marked Downloading and handed to
\* download_tracks in one batch.
StartDownload ==
    /\ Len(batches) < MaxRuns
    /\ LET pending_tracks == {i \in Tracks : track_status[i] = "Pending"}
       IN  /\ pending_tracks # {}
           /\ track_status' = [i \in Tracks |->
                                  IF track_status[i] = "Pending" THEN "Downloading"
                                  ELSE track_status[i]]
           /\ batches' = Append(batches, [running |-> pending_tracks,
                                          success |-> {}, failure |-> {}])
    /\ UNCHANGED <<outsideGui, selected_tracks, single_runs>>

\* iced.rs 880-890: Downloading becomes Paused.
PauseDownload ==
    /\ track_status' = [i \in Tracks |->
                           IF track_status[i] = "Downloading" THEN "Paused"
                           ELSE track_status[i]]
    /\ UNCHANGED <<outsideGui, selected_tracks, single_runs, batches>>

\* iced.rs 892-903: Downloading and Paused become Pending; no run is stopped.
StopDownload ==
    /\ track_status' = [i \in Tracks |->
                           IF track_status[i] \in {"Downloading", "Paused"} THEN "Pending"
                           ELSE track_status[i]]
    /\ UNCHANGED <<outsideGui, selected_tracks, single_runs, batches>>

\* iced.rs 536-545: the track becomes Pending whatever its status.
RetryTrack(index) ==
    /\ track_status' = [track_status EXCEPT ![index] = "Pending"]
    /\ UNCHANGED <<outsideGui, selected_tracks, single_runs, batches>>

\* iced.rs 689-780: a Pending or Failed track is marked Downloading and a
\* run of download_track is started for it.
DownloadTrack(index) ==
    /\ track_status[index] \in {"Pending", "Failed"}
    /\ single_runs[index] < MaxRuns
    /\ track_status' = [track_status EXCEPT ![index] = "Downloading"]
    /\ single_runs' = [single_runs EXCEPT ![index] = @ + 1]
    /\ UNCHANGED <<outsideGui, selected_tracks, batches>>

\* iced.rs 590-686: the loop over the selection returns at the first
\* Pending or Failed track, for which it does what DownloadTrack does;
\* selected_tracks is in the order the tracks were selected in.
DownloadSelectedTracks ==
    \E index \in selected_tracks :
        /\ track_status[index] \in {"Pending", "Failed"}
        /\ single_runs[index] < MaxRuns
        /\ track_status' = [track_status EXCEPT ![index] = "Downloading"]
        /\ single_runs' = [single_runs EXCEPT ![index] = @ + 1]
        /\ UNCHANGED <<outsideGui, selected_tracks, batches>>

\* The run started for one track returns: Ok is reported by CompleteDownload
\* (iced.rs 1338-1345); Err by SetError("download", ..) (iced.rs 680, 775,
\* 1332-1337), which looks for a track with the id "download" and finds none.
SingleRunReturns(index) ==
    /\ single_runs[index] > 0
    /\ single_runs' = [single_runs EXCEPT ![index] = @ - 1]
    /\ \E ok \in BOOLEAN :
         track_status' = IF ok THEN [track_status EXCEPT ![index] = "Completed"]
                         ELSE track_status
    /\ UNCHANGED <<outsideGui, selected_tracks, batches>>

\* The unit of one track of a batch ends (async_manager.rs 124-138).
BatchUnitEnds(b, index) ==
    /\ b \in DOMAIN batches
    /\ index \in batches[b].running
    /\ \E ok \in BOOLEAN :
         batches' = [batches EXCEPT
                       ![b] = [running |-> @.running \ {index},
                               success |-> IF ok THEN @.success \cup {index} ELSE @.success,
                               failure |-> IF ok THEN @.failure ELSE @.failure \cup {index}]]
    /\ UNCHANGED <<outsideGui, track_status, selected_tracks, single_runs>>

\* download_tracks has returned and BatchDownloadComplete is handled
\* (iced.rs 1346-1362): every track of the batch becomes Completed or Failed.
BatchDownloadComplete(b) ==
    /\ b \in DOMAIN batches
    /\ batches[b].running = {}
    /\ track_status' = [i \in Tracks |->
                           IF i \in batches[b].success THEN "Completed"
                           ELSE IF i \in batches[b].failure THEN "Failed"
                           ELSE track_status[i]]
    /\ batches' = SubSeq(batches, 1, b - 1) \o SubSeq(batches, b + 1, Len(batches))
    /\ UNCHANGED <<outsideGui, selected_tracks, single_runs>>

NextGui ==
    \/ StartDownload
    \/ PauseDownload
    \/ StopDownload
    \/ DownloadSelectedTracks
    \/ \E index \in Tracks : RetryTrack(index)
    \/ \E index \in Tracks : DownloadTrack(index)
    \/ \E index \in Tracks : SingleRunReturns(index)
    \/ \E b \in 1..MaxRuns, index \in Tracks : BatchUnitEnds(b, index)
    \/ \E b \in 1..MaxRuns : BatchDownloadComplete(b)

SpecGui == InitGui /\ [][NextGui]_vars

----------------------------------------------------------------------------
\* The tag embedder: MetadataEmbedder::embed_metadata with embed_mp3_metadata
\* and embed_lofty_metadata, and the embed_* toggles of DownloadOptions.

\* The fields that have a toggle embed_<field> (downloader/mod.rs 128-138).
TagFields ==
    {"title", "artist", "album", "year", "genre", "track_number", "disc_number",
     "album_artist", "composer", "comment"}

\* The fields of a track that are there to be written: non-empty title,
\* artist, album and genres, and the Options that are Some.
present_fields(track) ==
    {f \in TagFields \ {"year"} : track[f]}
    \cup (IF track.release_date # "none" THEN {"year"} ELSE {})

\* embed_mp3_metadata (metadata.rs 192-247): every field the track has is
\* set; the year only when release_date parses as an i32. _options is not
\* read.
embed_mp3_metadata(track, opts) ==
    {f \in present_fields(track) : f = "year" => track.release_date = "year"}

\* embed_lofty_metadata (metadata.rs 446-515): every field the track has is
\* inserted. _options is not read.
embed_lofty_metadata(track, opts) == present_fields(track)

\* embed_metadata (metadata.rs 165-185): the dispatch on the extension;
\* embed_with_lyrics_folder (metadata.rs 300-324) calls embed_lofty_metadata.
embed_metadata(extension, track, opts) ==
    IF to_lowercase(extension) = <<"m", "p", "3">>
    THEN embed_mp3_metadata(track, opts)
    ELSE embed_lofty_metadata(track, opts)

\* A track with every field, with a full date as release_date, and one with
\* the mandatory strings only.
TrackSamples ==
    {[f \in TagFields \cup {"release_date"} |->
         IF f = "release_date" THEN d ELSE f \in {"title", "artist", "album"} \/ full] :
        d \in {"none", "year", "date"}, full \in BOOLEAN}

InitTags ==
    /\ PipelineInit(0, BatchOptions, DistinctSongs)
    /\ SearchIdle
    /\ ConversionIdle
    /\ TitleIdle
    /\ LrcIdle
    /\ SanitizeIdle
    /\ EnrichIdle
    /\ YtdlpIdle
    /\ LyricsIdle
    /\ FetchesIdle
    /\ GuiIdle
    /\ embed_args \in [extension : {extension_of(f) : f \in Formats},
                       track : TrackSamples,
                       options : [TagFields -> BOOLEAN]]
    /\ tag_written = {}

EmbedMetadataReturns ==
    /\ tag_written = {}
    /\ tag_written' = {embed_metadata(embed_args.extension, embed_args.track,
                                      embed_args.options)}
    /\ UNCHANGED <<outsideTags, embed_args>>

NextTags == EmbedMetadataReturns

SpecTags == InitTags /\ [][NextTags]_vars

----------------------------------------------------------------------------
\* Properties.

Last(seq) == seq[Len(seq)]

\* The positions at which a unit is suspended inside download_track.
PipelinePcs == {"search", "fetch", "enrich", "embed"}

Holders == {t \in Tracks : holds[t]}

\* C1: at every instant at most Limit tracks hold a permit, every track that
\* is inside its pipeline run (past admission, at any step) holds one, and the
\* free permits plus the held ones are always Limit: a permit is given back
\* only when the run has returned.
ConcurrencyBound ==
    /\ Cardinality(Holders) <= Limit
    /\ Cardinality({t \in Tracks : pc[t] \in PipelinePcs}) <= Limit
    /\ permits = Limit - Cardinality(Holders)
    /\ \A t \in Tracks : pc[t] \in PipelinePcs <=> holds[t]

\* C1 witness: every permit is taken by tracks that are fetching while
\* another track waits at the gate.
ConcurrencyBoundWitness ==
    /\ permits = 0
    /\ Cardinality(Holders) = Limit
    /\ \E t \in Tracks : holds[t] /\ pc[t] = "fetch"
    /\ \E u \in Tracks : pc[u] = "acquire"

\* C2: every result of the batch reflects the run of its own track alone:
\* success is false exactly when that track's run returned an error or its
\* unit panicked, the path and the error are those of its own run, and when
\* the batch returns every track has run to its end and has its result,
\* whatever happened to the others.
BatchIsolation ==
    /\ \A i \in 1..Len(results) :
         LET o == outcome[i]
             own_ok == o.state = "returned" /\ o.ret.ok
         IN  /\ results[i].success = own_ok
             /\ results[i].output_path = (IF own_ok THEN o.ret.path ELSE NoPath)
             /\ own_ok => results[i].output_path = get_output_path(i, options)
             /\ results[i].error = (IF o.state = "panicked" THEN "Task failed"
                                    ELSE o.ret.error)
    /\ mainPc = "returned" =>
         /\ Len(results) = batch
         /\ \A t \in 1..batch : pc[t] = "finished"

\* C2 witness: the batch has returned, one unit panicked and another track
\* succeeded.
BatchIsolationWitness ==
    /\ mainPc = "returned"
    /\ \E i, j \in 1..Len(results) :
         /\ outcome[i].state = "panicked"
         /\ ~results[i].success
         /\ results[j].success

\* C3: when download_tracks has returned, every spawned unit has ended
\* (returned Ok, returned an error, or panicked) and the list holds exactly one
\* result per submitted track, in submission order; a result is never taken
\* from a unit that is still running.
WaitsForAllUnits ==
    /\ \A i \in 1..Len(results) :
         /\ pc[i] = "finished"
         /\ outcome[i].state # "running"
         /\ outcome[i].state = "returned" => results[i].track = i
         /\ outcome[i].state = "panicked" => results[i].track = UnknownTrack
    /\ Len(results) <= batch
    /\ mainPc = "returned" =>
         /\ spawned = batch
         /\ Len(results) = batch
         /\ \A t \in 1..batch : pc[t] = "finished" /\ outcome[t].state # "running"

\* C3 witness: the batch has returned with one unit ended by a panic and one
\* by an error of its run.
WaitsForAllUnitsWitness ==
    /\ mainPc = "returned"
    /\ \E t, u \in 1..batch :
         /\ outcome[t].state = "panicked"
         /\ outcome[u].state = "returned" /\ ~outcome[u].ret.ok

\* The stages in the order of the state machine; the two enrichment stages
\* count as one.
Rank(stage) ==
    CASE stage = "Queued" -> 1
      [] stage = "FetchingMetadata" -> 2
      [] stage = "SearchingSource" -> 3
      [] stage = "DownloadingAudio" -> 4
      [] stage = "ConvertingAudio" -> 5
      [] stage = "DownloadingCover" -> 6
      [] stage = "DownloadingLyrics" -> 6
      [] stage = "EmbeddingMetadata" -> 7
      [] stage = "Completed" -> 8
      [] OTHER -> 9

StagesOf(seq) == {seq[i].stage : i \in DOMAIN seq}

RunOk(t) == outcome[t].state = "returned" /\ outcome[t].ret.ok
RunErr(t) == outcome[t].state = "returned" /\ ~outcome[t].ret.ok

\* C4: for a run that does not error, the stages emitted for the track go
\* strictly forward through Queued, SearchingSource, DownloadingAudio,
\* ConvertingAudio, the enrichment stage, EmbeddingMetadata, Completed: no stage
\* is emitted after a later one has been, the run ends with Completed, and
\* the enrichment stage and EmbeddingMetadata are there when they are asked for.
StageMonotonicity ==
    \A t \in Tracks :
        RunOk(t) =>
            /\ \A i, j \in DOMAIN emitted[t] :
                 i < j => Rank(emitted[t][i].stage) <= Rank(emitted[t][j].stage)
            /\ {"SearchingSource", "DownloadingAudio", "ConvertingAudio",
                "Completed"} \subseteq StagesOf(emitted[t])
            /\ options.embed_metadata => "EmbeddingMetadata" \in StagesOf(emitted[t])
            /\ Last(emitted[t]).stage = "Completed"

\* C5: every run that returns an error has sent an Error event, and that
\* event is the last one of the run.
ErrorEventOnFailure ==
    \A t \in Tracks :
        RunErr(t) => /\ emitted[t] # <<>>
                     /\ Last(emitted[t]).stage = "Error"

\* C6: Error and Completed are terminal: such an event is the last one the
\* run sends, the run has returned by then, with an error after Error and with
\* the output path after Completed (progress 1.0).
TerminalEvents ==
    \A t \in Tracks : \A i \in DOMAIN emitted[t] :
        LET e == emitted[t][i]
        IN  e.stage \in {"Error", "Completed"} =>
              /\ i = Len(emitted[t])
              /\ pc[t] = "finished"
              /\ e.stage = "Error" => RunErr(t)
              /\ e.stage = "Completed" =>
                    /\ RunOk(t)
                    /\ e.progress = 100
                    /\ outcome[t].ret.path = get_output_path(t, options)

\* C6 witness: a run that went through every stage, copied the cover and
\* ended with Completed.
TerminalEventsWitness ==
    \E t \in Tracks :
        /\ RunOk(t)
        /\ "save_cover_art_to_folder" \in invoked[t]
        /\ "embed_metadata" \in invoked[t]
        /\ Last(emitted[t]).stage = "Completed"

\* C7: a run whose audio fetch failed returns failure only after the fallback
\* chain was tried: the search on the secondary platform and, when the generic
\* tool is available, its search-and-fetch.
FallbackAfterFetchFailure ==
    \A t \in Tracks :
        (RunErr(t) /\ outcome[t].ret.error = "Youtube") =>
            "soundcloud.search_tracks" \in invoked[t]

\* The collaborators behind the search: fetcher, transcoder, enrichment, embedder.
Downstream ==
    {"download_audio", "ytdlp.download_audio", "convert_audio",
     "download_cover_art_data", "download_lyrics_for_embedding", "embed_metadata",
     "save_cover_art_to_folder"}

\* C8: when the search returns an empty list or fails, the run sends Error,
\* returns failure, and has called none of the fetcher, the transcoder, the
\* enrichment fetcher and the embedder.
SearchHardStop ==
    \A t \in Tracks :
        searched[t] \in {"empty", "failed"} =>
            /\ pc[t] = "finished"
            /\ RunErr(t)
            /\ Last(emitted[t]).stage = "Error"
            /\ invoked[t] \cap Downstream = {}

\* C8 witness: a run whose search came back empty.
SearchHardStopWitness ==
    \E t \in Tracks : searched[t] = "empty" /\ pc[t] = "finished"

\* C9, in every state: a unit that has not started has sent nothing; a unit
\* waiting at the gate has sent Queued and nothing else, and that is all the
\* aggregation channel holds for it; an event past Queued is on the channel
\* only for a track that was admitted.
AdmissionInv ==
    \A t \in Tracks :
        /\ pc[t] \in {"unspawned", "start"} => emitted[t] = <<>> /\ global[t] = <<>>
        /\ pc[t] = "acquire" =>
              /\ ~holds[t]
              /\ emitted[t] = <<Event(t, "Queued", 0)>>
              /\ global[t] = emitted[t]
        /\ (\E i \in DOMAIN global[t] : global[t][i].stage # "Queued") =>
              pc[t] \in PipelinePcs \cup {"finished"}

\* C9, in every step: the first event a unit sends is Queued, before it goes
\* to the gate; every other event is sent in a step of the unit that begins
\* with the grant of a free permit or is taken while it holds its permit.
AdmissionStep ==
    \A t \in Tracks :
        emitted'[t] # emitted[t] =>
            LET new == SubSeq(emitted'[t], Len(emitted[t]) + 1, Len(emitted'[t]))
            IN  IF pc[t] = "start"
                THEN new = <<Event(t, "Queued", 0)>> /\ pc'[t] = "acquire"
                ELSE /\ \A i \in DOMAIN new : new[i].stage # "Queued"
                     /\ \/ holds[t]
                        \/ pc[t] = "acquire" /\ permits > 0 /\ holds'[t]

\* C9: two-phase admission signal.
TwoPhaseAdmission == []AdmissionInv /\ [][AdmissionStep]_vars

\* C9 witness: one track is shown as Queued and waits for a permit while an
\* admitted one, holding the last permit, is shown as SearchingSource or later.
TwoPhaseAdmissionWitness ==
    \E t, u \in Tracks :
        /\ pc[t] = "acquire" /\ global[t] = <<Event(t, "Queued", 0)>>
        /\ permits = 0 /\ holds[u]
        /\ Len(global[u]) >= 2 /\ global[u][2].stage = "SearchingSource"

\* C10: on the aggregation channel the events carrying a track id are, in
\* order, the first events that track's unit sent (Queued, SearchingSource,
\* then those of download_track); the rest wait, in order, in the track's own
\* channel; every event carries the id of its track.
OrderedDelivery ==
    \A t \in Tracks :
        /\ Len(global[t]) <= Len(emitted[t])
        /\ global[t] = SubSeq(emitted[t], 1, Len(global[t]))
        /\ emitted[t] = global[t] \o trackChan[t]
        /\ \A i \in DOMAIN global[t] : global[t][i].track_id = t
        /\ Len(global[t]) >= 2 =>
              /\ global[t][1].stage = "Queued"
              /\ global[t][2].stage = "SearchingSource"

\* C10 witness: two tracks both have events on the aggregation channel past
\* the two sent by their units and both still have events waiting to be relayed.
OrderedDeliveryWitness ==
    \E t, u \in Tracks :
        /\ t # u
        /\ Len(global[t]) >= 3 /\ Len(trackChan[t]) >= 2
        /\ Len(global[u]) >= 3 /\ Len(trackChan[u]) >= 2

\* C11: when the cover providers and the lyrics providers all fail (both are
\* asked for), embed_metadata is called with cover = None and lyrics = None.
\* The arguments of the call in flight are cover_art_data.as_ref() and
\* lyrics_data.as_ref().
EmbedCalledWithNone ==
    \A t \in Tracks :
        (/\ pc[t] = "embed"
         /\ options.download_cover /\ options.download_lyrics
         /\ cover_art_data[t] # Some
         /\ lyrics_data[t] # Some) =>
            /\ cover_art_data[t] = None
            /\ lyrics_data[t] = None

\* The steps of download_track that come after the conversion, and after the
\* embedding.
AfterConversion ==
    {"download_cover_art_data", "download_lyrics_for_embedding", "embed_metadata",
     "save_cover_art_to_folder"}
AfterEmbedding == {"save_cover_art_to_folder"}

\* C12: a run that returned the error of the conversion or of the embedding
\* ran no later step and never sent Completed; the unit's DownloadTaskResult,
\* and the entry of the batch results, has success = false, that error and
\* no output path.
FatalConvertAndEmbed ==
    \A t \in Tracks :
        (RunErr(t) /\ outcome[t].ret.error \in {"Conversion", "Metadata"}) =>
            /\ "Completed" \notin StagesOf(emitted[t])
            /\ outcome[t].ret.error = "Conversion" =>
                  invoked[t] \cap AfterConversion = {}
            /\ outcome[t].ret.error = "Metadata" =>
                  /\ invoked[t] \cap AfterEmbedding = {}
                  /\ Last(emitted[t]).stage = "EmbeddingMetadata"
            /\ outcome[t].value =
                  [track |-> t, success |-> FALSE, output_path |-> NoPath,
                   error |-> outcome[t].ret.error]
            /\ Len(results) >= t => results[t] = outcome[t].value

\* C12 witness: the embedding failed after a cover was fetched, and the batch
\* has returned the failed result.
FatalConvertAndEmbedWitness ==
    \E t \in Tracks :
        /\ RunErr(t) /\ outcome[t].ret.error = "Metadata"
        /\ "download_cover_art_data" \in invoked[t]
        /\ mainPc = "returned" /\ ~results[t].success

\* The tiers as the specification lists them: primary narrow, primary wide,
\* secondary narrow, secondary wide.
TierOrder ==
    <<[platform |-> "YouTube", search_limit |-> 1],
      [platform |-> "YouTube", search_limit |-> 5],
      [platform |-> "SoundCloud", search_limit |-> 1],
      [platform |-> "SoundCloud", search_limit |-> 5]>>

\* C13: the tiers are called in the order primary 1, primary 5, secondary 1,
\* secondary 5; a tier is called only if every earlier tier returned nothing;
\* when the first tier yields a result that passes the filters no other tier
\* is called.
TieredEscalation ==
    /\ Len(tier_calls) <= Len(TierOrder)
    /\ \A k \in DOMAIN tier_calls : tier_calls[k] = TierOrder[k]
    /\ \A k \in DOMAIN tier_calls : \A j \in 1..(k - 1) : tier_outs[j].results = <<>>
    /\ (/\ Len(tier_outs) >= 1
        /\ \E i \in DOMAIN tier_outs[1].results : is_kept(tier_outs[1].results[i])) =>
            Len(tier_calls) = 1

\* C13 witness: the search went through the four tiers, the first three
\* returned nothing or failed, and the last one found a usable candidate.
TieredEscalationWitness ==
    /\ search_pc = "returned"
    /\ Len(tier_calls) = 4
    /\ ~tier_outs[1].ok /\ tier_outs[2].ok
    /\ search_ret.results # <<>>

\* C14: the search returns an empty list only if all four tiers were called
\* and none of them yielded a candidate that passes both filters.
EmptyOnlyAfterAllTiers ==
    (search_pc = "returned" /\ search_ret.results = <<>>) =>
        /\ Len(tier_calls) = 4
        /\ \A k \in DOMAIN tier_outs : \A i \in DOMAIN tier_outs[k].results :
              ~is_kept(tier_outs[k].results[i])

\* C15: when yt-dlp failed in every tier that was called, the search returns
\* an error, not an empty list.
SearchErrorPropagates ==
    (search_pc = "returned" /\ \A k \in DOMAIN tier_outs : ~tier_outs[k].ok) =>
        ~search_ret.ok

\* C20: a duration is valid exactly when it is unknown or between 61 and 960
\* seconds: for every candidate a tier reported, is_valid_duration says so, and
\* a candidate with a track title is in the returned list exactly in that case.
DurationFilter ==
    /\ \A k \in DOMAIN tier_outs : \A i \in DOMAIN tier_outs[k].results :
          LET c == tier_outs[k].results[i]
              valid == c.duration = {} \/ \E d \in c.duration : 61 <= d /\ d <= 960
          IN  /\ is_valid_duration(c.duration) <=> valid
              /\ (search_pc = "returned" /\ is_track(c.title)) =>
                    ((\E n \in DOMAIN search_ret.results : search_ret.results[n] = c) <=> valid)
    /\ ~is_valid_duration({60}) /\ is_valid_duration({61})
    /\ is_valid_duration({960}) /\ ~is_valid_duration({961})

\* C20 witness: a candidate of exactly 60 seconds with a track title was
\* reported and the search returned without it.
DurationFilterWitness ==
    /\ search_pc = "returned"
    /\ search_ret.results = <<>>
    /\ \E i \in DOMAIN all_results :
          all_results[i].duration = {60} /\ is_track(all_results[i].title)

\* C16: once the search for a query has returned candidates to one track of
\* the batch, no other track with the same query issues a search: a step in
\* which a unit calls search_optimized is never taken while another unit
\* with the identical query has its candidates.
SearchOncePerQuery ==
    [][\A u \in Tracks :
         ("search_optimized" \notin invoked[u] /\ "search_optimized" \in invoked'[u]) =>
            ~\E t \in Tracks : /\ t # u
                               /\ search_query(t) = search_query(u)
                               /\ searched[t] = "found"]_vars

\* C17: in a run that does not error every progress fraction (in hundredths)
\* is between 0 and 100, the fractions never decrease from one event to the
\* next, every DownloadingAudio event is between 30 and 60, and the last event
\* is Completed at 100.
ProgressMonotone ==
    \A t \in Tracks :
        RunOk(t) =>
            /\ \A i \in DOMAIN emitted[t] :
                  /\ emitted[t][i].progress >= 0 /\ emitted[t][i].progress <= 100
                  /\ emitted[t][i].stage = "DownloadingAudio" =>
                        (emitted[t][i].progress >= 30 /\ emitted[t][i].progress <= 60)
            /\ \A i \in 1..(Len(emitted[t]) - 1) :
                  emitted[t][i].progress <= emitted[t][i + 1].progress
            /\ Last(emitted[t]) = Event(t, "Completed", 100)

\* C17 witness: a run with every stage on, from Queued to Completed, with the
\* sub-progress event of the fetch callback at 0.6.
ProgressMonotoneWitness ==
    \E t \in Tracks :
        /\ RunOk(t)
        /\ Len(emitted[t]) = 10
        /\ emitted[t][4] = Event(t, "DownloadingAudio", 30)
        /\ emitted[t][5] = Event(t, "DownloadingAudio", 60)

\* C18: every result of the batch carries the id of the submitted track it
\* is the record of, whether its unit succeeded, failed or panicked.
ResultCarriesTrack ==
    \A i \in DOMAIN results : results[i].track = tracks[i].id

\* Whether an extension, whatever its case, is not the one of the format.
ExtensionDiffers(ext, format) == to_lowercase(ext) # extension_of(format)

\* C19 as stated: needs_conversion returns true exactly when the extension
\* of the path, compared without case, differs from the one of the target
\* format, whatever the bitrate and anything else.
ConversionByExtensionOnly ==
    \A needed \in conversion_needed :
        needed <=> ExtensionDiffers(conversion_args.ext, conversion_args.format)

\* C19 as amended: for a path that exists, needs_conversion returns true
\* exactly when the extension, compared without case, differs from the one of
\* the target format, whatever the bitrate; for a path that does not exist
\* it returns false.
ConversionByExtensionIfExists ==
    \A needed \in conversion_needed :
        /\ conversion_args.exists =>
              (needed <=> ExtensionDiffers(conversion_args.ext, conversion_args.format))
        /\ ~conversion_args.exists => ~needed
        /\ (/\ conversion_args.exists /\ conversion_args.format = "mp3"
            /\ conversion_args.ext = <<"m", "p", "3">>) => ~needed
        /\ (/\ conversion_args.exists /\ conversion_args.format = "mp3"
            /\ conversion_args.ext = <<"w", "a", "v">>) => needed

\* C19 witness: the call returned false for an existing file whose
\* extension is the target's in capitals.
ConversionByExtensionIfExistsWitness ==
    /\ conversion_needed = {FALSE}
    /\ conversion_args.exists
    /\ conversion_args.ext = <<"M", "P", "3">>
    /\ conversion_args.format = "mp3"
    /\ conversion_args.bitrate = "Kbps128"
----------------------------------------------------------------------------
\* A title carries a non-track marker: one of its words is a keyword of the
\* list, or " - " cuts it into more than two parts, or one of its words is
\* a running time H:MM:SS.
HasMarker(words) ==
    \/ \E i \in 1..Len(words) : to_lowercase(words[i]) \in non_track_keywords
    \/ split_count(to_lowercase(join_words(words)), <<" ", "-", " ">>) > 2
    \/ \E i \in 1..Len(words) : timestamp_match(words[i])

\* C21: is_track rejects a title exactly when the title carries a non-track
\* marker (a keyword of albums, mixtapes, compilations and mixes, more than
\* two " - " separated parts, or a running time) and accepts every other
\* title.
IsTrackExactlyOnMarkers ==
    title_ret # {} /\ title_words # <<>> =>
        title_ret = {~HasMarker(title_words)}

----------------------------------------------------------------------------
\* The parsed list has the lines of the original in the same order with the
\* same text, and every timestamp less than 10 ms off.
SameLines(parsed, original) ==
    /\ Len(parsed) = Len(original)
    /\ \A i \in 1..Len(original) :
        /\ parsed[i].text = original[i].text
        /\ parsed[i].timestamp - original[i].timestamp < 10
        /\ original[i].timestamp - parsed[i].timestamp < 10

\* C22 as stated: serialising any list of synced lines of single-line text
\* with convert_to_lrc and parsing the result with parse_lrc_content gives
\* back the same number of lines, in the same order, with the same text and
\* timestamps less than 10 ms off.
LrcRoundTripAny ==
    lrc_pc = "parsed" =>
        lrc_parsed.ok /\ SameLines(lrc_parsed.lines, lrc_lyrics.lines)

\* The text does not end in whitespace.
NoTrailingWhitespace(text) == text = <<>> \/ text[Len(text)] \notin Whitespace

\* C22 amended: the round trip gives back the lines when the list is not
\* empty and no text ends in whitespace; the timestamps come back rounded
\* down to the centisecond.
LrcRoundTrip ==
    /\ lrc_pc = "parsed"
    /\ lrc_lyrics.lines # <<>>
    /\ \A i \in 1..Len(lrc_lyrics.lines) : NoTrailingWhitespace(lrc_lyrics.lines[i].text)
    =>  /\ lrc_parsed.ok
        /\ SameLines(lrc_parsed.lines, lrc_lyrics.lines)
        /\ \A i \in 1..Len(lrc_lyrics.lines) :
               lrc_parsed.lines[i].timestamp =
                   lrc_lyrics.lines[i].timestamp - (lrc_lyrics.lines[i].timestamp % 10)

\* The lines [(5, "a"), (61234, "[c:]")] with an offset of 500 ms have gone
\* through both functions.
LrcRoundTripWitness ==
    /\ lrc_pc = "parsed"
    /\ lrc_lyrics.offset = 500
    /\ lrc_lyrics.lines = <<[timestamp |-> 5, text |-> <<"a">>],
                            [timestamp |-> 61234, text |-> <<"[", "c", ":", "]">>]>>
    /\ lrc_parsed.ok

----------------------------------------------------------------------------
\* What the sanitisation is specified to make of one character.
Sanitized(c) ==
    IF c \in {"<", ">", ":", "\"", "/", "\\", "|", "?", "*"} THEN "_"
    ELSE IF c = ";" THEN ","
    ELSE c

\* C23: every sanitize_filename (audio, covers, lyrics) replaces each of
\* < > : " / \ | ? * by '_' and ';' by ',' and leaves every other character
\* as it is, so that none of these characters is left in the result.
SanitizeReplaces ==
    \A name \in sanitize_ret :
        sanitize_args.filename # <<>> =>
            /\ name = [i \in 1..Len(sanitize_args.filename) |->
                           Sanitized(sanitize_args.filename[i])]
            /\ \A i \in 1..Len(name) :
                   name[i] \notin {"<", ">", ":", "\"", "/", "\\", "|", "?", "*", ";"}

----------------------------------------------------------------------------
----------------------------------------------------------------------------
\* C25: with cover and lyrics both requested the two fetches run
\* concurrently: neither is held back until the other has finished, each
\* can resolve whatever the state of the other, and the embedding starts
\* only when both have resolved.
ConcurrentEnrichment ==
    enrich_opts.download_cover /\ enrich_opts.download_lyrics =>
        /\ cover_future \in {"pending", "ready"} <=> lyrics_future \in {"pending", "ready"}
        /\ cover_future = "pending" => ENABLED CoverResolves
        /\ lyrics_future = "pending" => ENABLED LyricsResolves
        /\ enrich_pc = "embedding" => cover_future = "ready" /\ lyrics_future = "ready"

\* Both fetches are in flight at the same time.
ConcurrentEnrichmentWitness ==
    /\ enrich_opts.download_cover /\ enrich_opts.download_lyrics
    /\ enrich_pc = "joining"
    /\ cover_future = "pending"
    /\ lyrics_future = "pending"

----------------------------------------------------------------------------
\* C26: once the temp directory has been created, the fetch does not return
\* without having attempted the cleanup, whether the child was spawned or
\* not, whatever its exit status, and whether or not it left an output file.
CleanupOnEveryExit ==
    dl_pc = "returned" /\ temp_created => cleanup_attempted

\* C27: a failure inside the cleanup is only logged: a fetch whose file was
\* downloaded and renamed, and that got as far as the cleanup, returns Ok.
CleanupFailureOnlyLogged ==
    dl_pc = "returned" /\ cleanup_attempted /\ output_file = "expected" => dl_ret.ok

\* C28: the fetch returns Ok only when the child was spawned, exited with
\* status zero and its output file was found and renamed to the expected
\* path; a spawn failure, a non-zero exit and a missing output file are
\* errors.
FetchOkOnlyIfRenamed ==
    dl_pc = "returned" =>
        /\ dl_ret.ok => child_status = "zero" /\ output_file = "expected"
        /\ child_status \in {"spawn_err", "nonzero"} \/ output_file = "none" => ~dl_ret.ok

----------------------------------------------------------------------------
\* C29: every candidate of the list search_optimized returns passes the
\* content filter and the duration filter, the list is in order of
\* non-increasing view count, and download_track fetches the first of the
\* list, a candidate of the highest view count among them.
BestMatchIsTopSurvivor ==
    search_pc \in {"returned", "fetching"} =>
        LET list == search_ret.results
        IN  /\ \A i \in 1..Len(list) :
                   is_track(list[i].title) /\ is_valid_duration(list[i].duration)
            /\ \A i, j \in 1..Len(list) : i < j => list[i].view_count >= list[j].view_count
            /\ search_pc = "fetching" =>
                   /\ list # <<>>
                   /\ best_match = {list[1]}
                   /\ \A i \in 1..Len(list), b \in best_match :
                          b.view_count >= list[i].view_count

\* The second YouTube tier gave the candidate, after a first tier without
\* one, and download_track has taken it.
BestMatchIsTopSurvivorWitness ==
    /\ search_pc = "fetching"
    /\ Len(tier_calls) = 2
    /\ \E b \in best_match : b.view_count = MaxViews /\ b.duration = {600}

----------------------------------------------------------------------------
\* C30: synced lyrics win. The result of a lookup never carries synced and
\* unsynced lyrics together; an unsynced provider is asked only after every
\* synced provider has failed; once synced lyrics are found no unsynced
\* provider is asked.
SyncedWins ==
    /\ ~(lyr_result.synced # None /\ lyr_result.unsynced # None)
    /\ \A i \in 1..Len(lyr_calls) :
           lyr_calls[i].kind = "unsynced" =>
               /\ i > Len(synced_providers)
               /\ \A j \in 1..Len(synced_providers) :
                      lyr_calls[j].kind = "synced" /\ ~lyr_outs[j]
    /\ lyr_result.synced # None =>
           \A i \in 1..Len(lyr_calls) : lyr_calls[i].kind = "synced"

\* Both synced providers failed and an unsynced provider answered to the
\* second query.
SyncedWinsWitness ==
    /\ lyr_pc = "returned"
    /\ lyr_result.synced = None
    /\ lyr_result.unsynced = "Musixmatch"
    /\ lyr_calls[Len(lyr_calls)].query = "artist - title"

\* C31: when download_tracks has returned, every event sent by every
\* track's pipeline run, its final Completed or Error included, is on the
\* aggregation channel: no track's own channel still holds an event that its
\* forwarder has yet to relay.
AllEventsDeliveredAtReturn ==
    mainPc = "returned" =>
        \A t \in Tracks :
            /\ trackChan[t] = <<>>
            /\ Len(global[t]) = Len(emitted[t])

\* The stages of the events unit t has sent.
StagesSent(t) == {emitted[t][i].stage : i \in DOMAIN emitted[t]}

\* C32: a run that sent Completed and returned Ok has had its call of
\* download_audio return Ok before; the branch of audio.rs 299-373, which
\* sends Completed after the SoundCloud search without fetching anything, is
\* never entered: no run calls soundcloud.search_tracks.
NoSuccessWithoutFetch ==
    \A t \in Tracks :
        /\ "soundcloud.search_tracks" \notin invoked[t]
        /\ "ytdlp.download_audio" \notin invoked[t]
        /\ (/\ outcome[t].state = "returned"
            /\ outcome[t].ret.ok
            /\ "Completed" \in StagesSent(t))
           => /\ "download_audio" \in invoked[t]
              /\ fetched[t] = "ok"
              /\ searched[t] = "found"

\* C32 witness: a run returned Ok after Completed, with nothing but the fetch
\* between the search and the end (no cover, no lyrics, no embedding).
NoSuccessWithoutFetchWitness ==
    \E t \in Tracks :
        /\ outcome[t].state = "returned"
        /\ outcome[t].ret.ok
        /\ "Completed" \in StagesSent(t)
        /\ fetched[t] = "ok"
        /\ invoked[t] = {"search_optimized", "download_audio", "convert_audio"}



\* C33: the cleanup of one fetch removes no part file that the child of
\* another fetch, still running, has written.
CleanupRemovesOwnFilesOnly ==
    \A t \in DOMAIN removed :
        \A r \in removed[t] : r.file.by # t => ~r.running

\* C34: the rename step of a fetch renames only a file that the child of
\* this same fetch has written.
RenameTakesOwnFile ==
    \A t \in DOMAIN renamed :
        \A f \in renamed[t] : f.by = t

\* C35: two tracks of a batch with distinct ids that have both been handed to
\* download_audio were given distinct output paths.
DistinctOutputPaths ==
    \A i, j \in Tracks :
        (/\ tracks[i].id # tracks[j].id
         /\ "download_audio" \in invoked[i]
         /\ "download_audio" \in invoked[j])
        => get_output_path(i, options) # get_output_path(j, options)

\* Unit t has been admitted: it has sent SearchingSource past the gate.
Admitted(t) == \E i \in DOMAIN emitted[t] : emitted[t][i].stage = "SearchingSource"

\* C36: when every pipeline run terminates, every track of the batch is
\* eventually admitted, every permit is eventually back in the semaphore,
\* whether the runs succeeded or failed, and download_tracks eventually
\* returns with one result per track.
SchedulerLiveness ==
    <>[](/\ mainPc = "returned"
         /\ Len(results) = batch
         /\ permits = Limit
         /\ \A t \in 1..batch : Admitted(t) /\ pc[t] = "finished" /\ ~holds[t])

\* C36 witness: the batch has returned with every permit released, after one
\* run succeeded and another one failed.
SchedulerLivenessWitness ==
    /\ mainPc = "returned"
    /\ permits = Limit
    /\ \E i, j \in 1..batch : results[i].success /\ ~results[j].success



\* The pipeline runs of a track that are in flight.
InFlight(index) ==
    single_runs[index]
    + Cardinality({b \in DOMAIN batches : index \in batches[b].running})

\* C37: in the GUI a track has at most one pipeline run in flight at a time,
\* whatever the sequence of Start, Stop, Pause, Retry and download actions.
OneRunPerTrack ==
    \A index \in DOMAIN track_status : InFlight(index) <= 1



\* C38: a tag field is written into the audio file only if its embed_*
\* toggle is true, whatever the container.
TogglesHonoured ==
    \A written \in tag_written :
        \A f \in written : embed_args.options[f]

\* C39: the path download_track hands to convert_audio carries the extension
\* of options.format, so needs_conversion is false for it whether or not the
\* file exists: convert_audio returns the path it was given, no run calls the
\* transcoder or uses a temporary file for the conversion, and no run
\* returns the error of the conversion.
ConversionNeverNeeded ==
    \A t \in Tracks :
        /\ \A exists \in BOOLEAN :
              ~needs_conversion(exists, get_output_path(t, options), options.format,
                                options.bitrate)
        /\ "converter.convert_audio" \notin invoked[t]
        /\ "temp_convert" \notin invoked[t]
        /\ outcome[t].ret.error # "Conversion"
        /\ ("convert_audio" \in invoked[t] /\ pc[t] # "finished")
           => converted_path[t] = get_output_path(t, options)

\* C39 witness: a run for a format other than mp3 has gone through
\* convert_audio and is at the embedding with the path of the fetch.
ConversionNeverNeededWitness ==
    \E t \in Tracks :
        /\ options.format = "flac"
        /\ "convert_audio" \in invoked[t]
        /\ pc[t] = "embed"
        /\ converted_path[t] = get_output_path(t, options)

----------------------------------------------------------------------------
\* parse_lrc_content on the LRC text of a provider (lyrics.rs 310, 409): the
\* timestamps are whatever the provider wrote.

MinuteSamples == {0, 1, 59}

SecondSamples == {0, 12, 59}

\* Fractions of a second of one to three digits, as they are written.
FractionSamples == UNION {[1..n -> {"0", "5", "9"}] : n \in 1..3}

\* "MM:SS.f"
provider_timestamp(m, s, f) == pad2(m) \o <<":">> \o pad2(s) \o <<".">> \o f

\* A line of a provider: "[MM:SS.f]a"
provider_line(m, s, f) == <<"[">> \o provider_timestamp(m, s, f) \o <<"]", "a">>

\* The digits f read as a decimal fraction of a second, in milliseconds.
fraction_millis(f) ==
    digits_value(f) * (CASE Len(f) = 1 -> 100 [] Len(f) = 2 -> 10 [] OTHER -> 1)

InitProviderLrc ==
    /\ PipelineInit(0, BatchOptions, DistinctSongs)
    /\ TagsIdle
    /\ GuiIdle
    /\ FetchesIdle
    /\ LyricsIdle
    /\ YtdlpIdle
    /\ EnrichIdle
    /\ SearchIdle
    /\ ConversionIdle
    /\ TitleIdle
    /\ SanitizeIdle
    /\ lrc_lyrics = [lines |-> <<>>, offset |-> 0]
    /\ lrc_pc = "serialized"
    /\ lrc_content \in {provider_line(m, s, f) :
                           m \in MinuteSamples, s \in SecondSamples, f \in FractionSamples}
    /\ lrc_parsed = [ok |-> FALSE, panic |-> FALSE, lines |-> <<>>]

NextProviderLrc == ParseLrcContent

SpecProviderLrc == InitProviderLrc /\ [][NextProviderLrc]_vars

\* C40: parse_timestamp maps "MM:SS.f" with f of one to three digits to
\* MM * 60000 + SS * 1000 + f read as a decimal fraction of a second in
\* milliseconds, so that the fraction adds fewer than 1000 ms and "00:12.5",
\* "00:12.50" and "00:12.500" all give 12500.
FractionIsDecimal ==
    lrc_pc = "parsed" =>
        \A m \in MinuteSamples, s \in SecondSamples, f \in FractionSamples :
            lrc_content = provider_line(m, s, f) =>
                /\ lrc_parsed.ok
                /\ Len(lrc_parsed.lines) = 1
                /\ lrc_parsed.lines[1].timestamp
                       = m * 60000 + s * 1000 + fraction_millis(f)
                /\ lrc_parsed.lines[1].timestamp - (m * 60000 + s * 1000) < 1000

====
